---- MODULE Spec2Model ----
(***************************************************************************)
(* Monster-Weapon-3d: the maze level (MazeMap), the player's movement and  *)
(* the camera projection of game_3d_enhanced.py as state machines.         *)
(*                                                                         *)
(*   SpecGen   MazeMap.__init__ step by step, for requested sizes          *)
(*   Spec      Game3D: a constructed game, its moves and regeneration      *)
(*   SpecCan   Player.can_move_to on bounded inputs                        *)
(*   SpecProj  Camera.project_3d_to_2d on bounded inputs                   *)
(*   SpecPlay  Game3D.run frame by frame: input, physics, interaction      *)
(*   SpecRooms MazeMap.add_rooms on grids of a caller                      *)
(*   SpecLoops MazeMap.add_random_connections on grids of a caller         *)
(*   SpecQuest Game3D.run: frames of interactions and regenerations        *)
(*   SpecMove  one call of a move operation next to walls                  *)
(*   SpecRender the cell loops of the three geometry passes of a frame     *)
(*   SpecJump  Player.jump, apply_physics, regenerate_world (SpecJumpFair:  *)
(*             with the physics tick of every frame)                       *)
(*                                                                         *)
(* Cell tags are the source's numbers: 0 wall, 1 floor/corridor, 2 room,   *)
(* 3 corridor/door.  maze[y][x] is indexed as in the source, row first.    *)
(***************************************************************************)
EXTENDS Integers, Sequences, FiniteSets, TLC

VARIABLES
    \* ---- a MazeMap under construction (SpecGen) ----
    arg_width, arg_height,  \* the constructor's arguments
    width, height,          \* self.width, self.height
    maze,                   \* generate_maze's local grid, then self.maze
    stack,                  \* generate_maze's stack of coarse cells
    has_rooms, rooms,       \* whether self.rooms exists yet, and its value
    rooms_left,             \* iterations left of add_rooms' loop
    max_connections, attempts_left, connections_added,
    monsters, treasures,    \* self.monsters, self.treasures (coordinate sets)
    pc, error,              \* position in __init__, and the exception raised
    \* ---- a running game (Spec) and single calls (SpecCan, SpecProj) ----
    player,                 \* Game3D.player: position x, z and rotation_y
    spawn,                  \* spawn_x, spawn_z, spawn_found of the last spawn search
    call,                   \* the last operation called, its arguments and outcome
    steps,                  \* operations called so far
    running                 \* Game3D.running

genVars == <<arg_width, arg_height, width, height, maze, stack, has_rooms, rooms,
             rooms_left, max_connections, attempts_left, connections_added,
             monsters, treasures, pc, error>>

gameVars == <<player, spawn, call, steps, running>>

vars == <<genVars, gameVars>>

----------------------------------------------------------------------------
(* Bounds of the model *)

\* the seeds of the random draws of a placement run from 0 to MaxSeed
MaxSeed == 2

\* operations called on a running game in Spec
MaxSteps == 5

\* |rotation_y| stays within MaxYaw degrees in Spec
MaxYaw == 45

\* requested sizes handed to MazeMap(width, height) in SpecGen
ReqSizes == {<<21, 21>>, <<26, 26>>, <<30, 30>>, <<36, 36>>, <<42, 36>>, <<36, 26>>}

----------------------------------------------------------------------------
(* MazeMap.__init__ and generate_maze *)

\* width if width % 2 == 1 else width + 1
OddDim(d) == IF d % 2 = 1 THEN d ELSE d + 1

Walkable(tag) == tag \in {1, 2, 3}

AllWalls(w, h) == [y \in 0..(h - 1) |-> [x \in 0..(w - 1) |-> 0]]

\* start_x = 12 + (self.width // 24) * 12
StartCoord(d) == 12 + (d \div 24) * 12

\* every cell (x, y) of m with x0 <= x <= x1, y0 <= y <= y1 that lies inside
\* the grid is set to tag: the source's nested carving loops with their
\* 0 <= .. < width / height guards
FillRect(m, w, h, x0, x1, y0, y1, tag) ==
    [y \in 0..(h - 1) |->
        IF y0 <= y /\ y <= y1
        THEN [x \in 0..(w - 1) |-> IF x0 <= x /\ x <= x1 THEN tag ELSE m[y][x]]
        ELSE m[y]]

\* the 7x7 open area around a coarse cell
OpenBlock(m, w, h, cx, cy) == FillRect(m, w, h, cx - 3, cx + 3, cy - 3, cy + 3, 1)

\* the state at the top of the while loop: all walls, start block, stack = [start]
StartMaze(w, h) == OpenBlock(AllWalls(w, h), w, h, StartCoord(w), StartCoord(h))

Directions == <<<<0, 12>>, <<12, 0>>, <<0, -12>>, <<-12, 0>>>>

\* the outcomes of random.shuffle(directions): orders of the four indices
Perms == {p \in [1..4 -> 1..4] : \A i, j \in 1..4 : p[i] = p[j] => i = j}

\* 6 <= nx < self.width - 6 and 6 <= ny < self.height - 6 and maze[ny][nx] == 0
Unvisited(m, w, h, nx, ny) ==
    /\ 6 <= nx /\ nx < w - 6
    /\ 6 <= ny /\ ny < h - 6
    /\ m[ny][nx] = 0

\* the first index i (in the shuffled order) whose target is unvisited; 0 if none
RECURSIVE FirstUnvisited(_, _, _, _, _, _, _)
FirstUnvisited(m, w, h, cx, cy, perm, i) ==
    IF i > 4 THEN 0
    ELSE LET d == Directions[perm[i]] IN
         IF Unvisited(m, w, h, cx + d[1], cy + d[2]) THEN perm[i]
         ELSE FirstUnvisited(m, w, h, cx, cy, perm, i + 1)

Min(a, b) == IF a < b THEN a ELSE b
Max(a, b) == IF a > b THEN a ELSE b

\* a carving that opens the destination's block and forgets the corridor to it
CarveToNoCorridor(m, w, h, cx, cy, dx, dy) == OpenBlock(m, w, h, cx + dx, cy + dy)

\* a carving that walls up the block it leaves
CarveToClosingBehind(m, w, h, cx, cy, dx, dy) ==
    OpenBlock(FillRect(m, w, h, cx - 3, cx + 3, cy - 3, cy + 3, 0), w, h, cx + dx, cy + dy)

\* the 7-wide corridor over the 11 steps strictly between current and next,
\* then the destination's 7x7 block
CarveTo(m, w, h, cx, cy, dx, dy) ==
    LET nx == cx + dx
        ny == cy + dy
        corridor ==
            IF dx # 0
            THEN FillRect(m, w, h, Min(cx, nx) + 1, Max(cx, nx) - 1, cy - 3, cy + 3, 1)
            ELSE FillRect(m, w, h, cx - 3, cx + 3, Min(cy, ny) + 1, Max(cy, ny) - 1, 1)
    IN  OpenBlock(corridor, w, h, nx, ny)

\* one iteration of `while stack`
CarveStepOf(m, st, w, h, perm) ==
    LET cur == st[Len(st)]
        k == FirstUnvisited(m, w, h, cur[1], cur[2], perm, 1)
    IN  IF k = 0
        THEN [maze |-> m, stack |-> SubSeq(st, 1, Len(st) - 1)]
        ELSE LET d == Directions[k] IN
             [maze |-> CarveTo(m, w, h, cur[1], cur[2], d[1], d[2]),
              stack |-> Append(st, <<cur[1] + d[1], cur[2] + d[2]>>)]

----------------------------------------------------------------------------
(* add_rooms and connect_room_to_maze *)

\* the values random.randrange(start, stop, step) can return; empty when it
\* raises ValueError
RandRange(start, stop, step) ==
    {v \in start..(stop - 1) : (v - start) % step = 0}

\* random.randrange(15, 26, 2)
RoomSizes == RandRange(15, 26, 2)

\* per row y, the number of cells x in room_x .. room_x + room_w - 1 with
\* maze[y][x] == 0 (the inner loop of the wall count)
RowWalls(m, h, room_x, room_w) ==
    [y \in 0..(h - 1) |->
        Cardinality({x \in room_x..(room_x + room_w - 1) : m[y][x] = 0})]

\* wall_count: the rows room_y .. room_y + room_h - 1 summed
RECURSIVE WallCount(_, _, _)
WallCount(row_walls, room_y, room_h) ==
    IF room_h = 0 THEN 0
    ELSE row_walls[room_y] + WallCount(row_walls, room_y + 1, room_h - 1)

\* wall_count > total_cells * 0.8
MostlyWalls(row_walls, room_y, room_w, room_h) ==
    WallCount(row_walls, room_y, room_h) * 10 > room_w * room_h * 8

\* the interior of the footprint, marked as room
CarveRoom(m, w, h, room_x, room_y, room_w, room_h) ==
    FillRect(m, w, h, room_x + 1, room_x + room_w - 2, room_y + 1, room_y + room_h - 2, 2)

RoomInfo(room_x, room_y, room_w, room_h) ==
    [x |-> room_x, y |-> room_y, width |-> room_w, height |-> room_h,
     center_x |-> room_x + room_w \div 2, center_y |-> room_y + room_h \div 2]

SetCell(m, x, y, tag) == [m EXCEPT ![y] = [@ EXCEPT ![x] = tag]]

SetMin(S) == CHOOSE v \in S : \A u \in S : v <= u

\* one side of connect_room_to_maze: the first position along the side (in
\* steps of 2) with a tag-1 passage two cells outside the footprint gets a
\* corridor cell (tag 3) one cell outside; [maze, made]
ConnectSide(m, w, h, side, room_x, room_y, room_w, room_h) ==
    LET xs == RandRange(room_x + 2, room_x + room_w - 2, 2)
        ys == RandRange(room_y + 2, room_y + room_h - 2, 2)
        top == {x \in xs : room_y > 2 /\ x >= 0 /\ x < w /\ room_y - 2 >= 0
                           /\ m[room_y - 2][x] = 1}
        bottom == {x \in xs : room_y + room_h < h - 2 /\ x >= 0 /\ x < w
                              /\ room_y + room_h + 1 < h
                              /\ m[room_y + room_h + 1][x] = 1}
        left == {y \in ys : room_x > 2 /\ y >= 0 /\ y < h /\ room_x - 2 >= 0
                            /\ m[y][room_x - 2] = 1}
        right == {y \in ys : room_x + room_w < w - 2 /\ y >= 0 /\ y < h
                             /\ room_x + room_w + 1 < w
                             /\ m[y][room_x + room_w + 1] = 1}
    IN  CASE side = "top" /\ top # {} ->
                [maze |-> SetCell(m, SetMin(top), room_y - 1, 3), made |-> 1]
          [] side = "bottom" /\ bottom # {} ->
                [maze |-> SetCell(m, SetMin(bottom), room_y + room_h, 3), made |-> 1]
          [] side = "left" /\ left # {} ->
                [maze |-> SetCell(m, room_x - 1, SetMin(left), 3), made |-> 1]
          [] side = "right" /\ right # {} ->
                [maze |-> SetCell(m, room_x + room_w, SetMin(right), 3), made |-> 1]
          [] OTHER -> [maze |-> m, made |-> 0]

Sides == <<"top", "bottom", "left", "right">>

\* connect_room_to_maze: the sides in shuffled order until max_conn are made
RECURSIVE ConnectRoomToMaze(_, _, _, _, _, _, _, _, _, _, _)
ConnectRoomToMaze(m, w, h, room_x, room_y, room_w, room_h, perm, max_conn, i, made) ==
    IF i > 4 \/ made >= max_conn THEN m
    ELSE LET r == ConnectSide(m, w, h, Sides[perm[i]], room_x, room_y, room_w, room_h) IN
         ConnectRoomToMaze(r.maze, w, h, room_x, room_y, room_w, room_h, perm,
                           max_conn, i + 1, made + r.made)

\* one iteration of add_rooms' loop once the footprint is found mostly walls:
\* [maze, rooms, error].  self.rooms.append raises AttributeError while
\* self.rooms does not exist (generate_maze runs before `self.rooms = []`).
AcceptRoomOf(m, w, h, hasr, rs, room_x, room_y, room_w, room_h, perm, max_conn) ==
    LET carved == CarveRoom(m, w, h, room_x, room_y, room_w, room_h) IN
    IF ~hasr
    THEN [maze |-> carved, rooms |-> rs, error |-> "AttributeError"]
    ELSE [maze |-> ConnectRoomToMaze(carved, w, h, room_x, room_y, room_w,
                                     room_h, perm, max_conn, 1, 0),
          rooms |-> Append(rs, RoomInfo(room_x, room_y, room_w, room_h)),
          error |-> "none"]

----------------------------------------------------------------------------
(* add_random_connections *)

\* an iteration that converts the drawn cell whatever lies around it
AddConnectionAnywhere(m, x, y, hit1, hit2) ==
    [maze |-> SetCell(m, x, y, 3), added |-> 1]

\* one iteration of the loop at the drawn cell; hit1 and hit2 are the outcomes
\* of the two `random.random() < 0.3` tests: [maze, added]
AddConnectionOf(m, x, y, hit1, hit2) ==
    IF m[y][x] # 0 THEN [maze |-> m, added |-> 0]
    ELSE IF Walkable(m[y][x - 1]) /\ Walkable(m[y][x + 1]) /\ hit1
         THEN [maze |-> SetCell(m, x, y, 3), added |-> 1]
         ELSE IF Walkable(m[y - 1][x]) /\ Walkable(m[y + 1][x]) /\ hit2
              THEN [maze |-> SetCell(m, x, y, 3), added |-> 1]
              ELSE [maze |-> m, added |-> 0]

\* the draws <<x, y, hit1, hit2>> of one iteration, up to their effect: every
\* draw at a wall cell with passages on opposite sides, and the draw
\* <<2, 2, FALSE, FALSE>> for all the draws that change nothing
ConnectionDraws(m, w, h) ==
    LET cells == {c \in RandRange(2, w - 2, 1) \X RandRange(2, h - 2, 1) :
                     /\ m[c[2]][c[1]] = 0
                     /\ \/ Walkable(m[c[2]][c[1] - 1]) /\ Walkable(m[c[2]][c[1] + 1])
                        \/ Walkable(m[c[2] - 1][c[1]]) /\ Walkable(m[c[2] + 1][c[1]])}
    IN  {<<c[1], c[2], h1, h2>> : c \in cells, h1 \in BOOLEAN, h2 \in BOOLEAN}
            \cup {<<2, 2, FALSE, FALSE>>}

----------------------------------------------------------------------------
(* The random draws of place_monsters and place_treasures, as a family       *)
(* indexed by a seed: counts, shuffles and the 10% sample of one placement.  *)

Seeds == 0..MaxSeed

\* random.randint(20, 35)
NumMonsters(seed) == 20 + ((15 + 11 * seed) % 16)

\* random.randint(15, 25)
NumTreasures(seed) == 15 + ((10 + 8 * seed) % 11)

RECURSIVE Gcd(_, _)
Gcd(a, b) == IF b = 0 THEN a ELSE Gcd(b, a % b)

RECURSIVE CoprimeFrom(_, _)
CoprimeFrom(k, n) == IF Gcd(k, n) = 1 THEN k ELSE CoprimeFrom(k + 1, n)

\* random.shuffle of a list of n items: the item placed at position i (from 0)
\* is the one at ShuffleIndex (from 1) of the unshuffled list
ShuffleIndex(n, seed, i) ==
    (((101 * seed) + i * CoprimeFrom(1 + 37 * seed, n)) % n) + 1

\* `random.random() < 0.1` for the cell (x, y) of the random-positions scan:
\* one cell in 10, 20, 7 or 13, by the seed
SampleHit(seed, w, x, y) ==
    (y * w + x + seed) % (<<10, 20, 7, 13>>[(seed % 4) + 1]) = 0

\* the keys of get_random_monster's table
MonsterNames == <<"sarkany", "troll", "boszorkany">>

\* get_random_monster: random.choice over the three monster names
MonsterName(seed, x, z) == MonsterNames[((2 * x + z + seed) % 3) + 1]

\* random.randint(2, 4) + health_bonus, with health_bonus = random.randint(1, 2)
\* in a room
MonsterHealth(seed, tag, x, z) ==
    2 + ((x + z + seed) % 3) + (IF tag = 2 THEN 1 + ((x + seed) % 2) ELSE 0)

\* random.choice over the contents list of a location type
TreasureContents(seed, location_type, x, z) ==
    LET choices ==
            CASE location_type = "room_center" ->
                    <<"mega_health", "weapon_upgrade", "points", "mega_health">>
              [] location_type = "dead_end" -> <<"health", "weapon_upgrade", "points">>
              [] OTHER -> <<"health", "points", "health">>
    IN  choices[((x + z + seed) % Len(choices)) + 1]

----------------------------------------------------------------------------
(* place_monsters and place_treasures *)

\* the cells (x, y), x in 1 .. w - 2, of row y with keep[y][x], in scan order
RowCells(w, y, keep) ==
    SelectSeq([i \in 1..(w - 2) |-> <<i, y>>], LAMBDA c : keep[c[2]][c[1]])

\* rows[lo] \o ... \o rows[hi]
RECURSIVE ConcatRows(_, _, _)
ConcatRows(rows, lo, hi) ==
    IF lo > hi THEN <<>>
    ELSE IF lo = hi THEN rows[lo]
    ELSE LET mid == (lo + hi) \div 2 IN
         ConcatRows(rows, lo, mid) \o ConcatRows(rows, mid + 1, hi)

\* `for y in range(1, height - 1): for x in range(1, width - 1): if keep[y][x]`
ScanCells(w, h, keep) ==
    ConcatRows([y \in 1..(h - 2) |-> RowCells(w, y, keep)], 1, h - 2)

\* valid_positions without the floor test: every cell off the border
ValidPositionsAnyCell(m, w, h) ==
    ScanCells(w, h, [y \in 1..(h - 2) |-> [x \in 1..(w - 2) |-> TRUE]])

\* valid_positions: the floor cells off the border
ValidPositions(m, w, h) ==
    ScanCells(w, h, [y \in 1..(h - 2) |-> [x \in 1..(w - 2) |-> Walkable(m[y][x])]])

\* a spacing test that finds no position too close
TooCloseNever(placed, x, z) == FALSE

\* abs(x - mx) + abs(z - mz) < 3 for some monster already placed
Abs(v) == IF v < 0 THEN -v ELSE v
TooClose(placed, x, z) ==
    \E mc \in placed : Abs(x - mc[1]) + Abs(z - mc[2]) < 3

\* a placement loop that stops at twice num_monsters instead of num_monsters
RECURSIVE PlaceMonstersLateStop(_, _, _, _, _, _)
PlaceMonstersLateStop(valid, seed, num, placed, lo, hi) ==
    IF lo > hi \/ Cardinality(placed) >= 2 * num THEN placed
    ELSE IF lo = hi
    THEN LET c == valid[ShuffleIndex(Len(valid), seed, lo)] IN
         IF TooClose(placed, c[1], c[2]) THEN placed ELSE placed \cup {c}
    ELSE LET mid == (lo + hi) \div 2 IN
         PlaceMonstersLateStop(valid, seed, num,
                               PlaceMonstersLateStop(valid, seed, num, placed, lo, mid),
                               mid + 1, hi)

\* the placement loop over the shuffled positions lo .. hi (from 0); placed is
\* the key set of `monsters` so far
RECURSIVE PlaceMonstersLoop(_, _, _, _, _, _)
PlaceMonstersLoop(valid, seed, num, placed, lo, hi) ==
    IF lo > hi \/ Cardinality(placed) >= num THEN placed
    ELSE IF lo = hi
    THEN LET c == valid[ShuffleIndex(Len(valid), seed, lo)] IN
         IF TooClose(placed, c[1], c[2]) THEN placed ELSE placed \cup {c}
    ELSE LET mid == (lo + hi) \div 2 IN
         PlaceMonstersLoop(valid, seed, num,
                           PlaceMonstersLoop(valid, seed, num, placed, lo, mid),
                           mid + 1, hi)

\* place_monsters: the dict, keyed by (x, z)
PlaceMonsters(m, w, h, seed) ==
    LET valid == ValidPositions(m, w, h)
        keys == PlaceMonstersLoop(valid, seed, NumMonsters(seed), {}, 0, Len(valid) - 1)
    IN  [c \in keys |-> [name |-> MonsterName(seed, c[1], c[2]),
                         defeated |-> FALSE,
                         health |-> MonsterHealth(seed, m[c[2]][c[1]], c[1], c[2])]]

\* a monster test that lets every cell pass
NotInMonstersSkipped(mons, x, z) == TRUE

\* (x, z) not in self.monsters
NotInMonsters(mons, x, z) == <<x, z>> \notin DOMAIN mons

\* the floor cells among the 8 neighbours of (x, y)
AdjacentFloors(m, w, h, x, y) ==
    Cardinality({d \in {-1, 0, 1} \X {-1, 0, 1} :
                    /\ d # <<0, 0>>
                    /\ 0 <= x + d[1] /\ x + d[1] < w
                    /\ 0 <= y + d[2] /\ y + d[2] < h
                    /\ Walkable(m[y + d[2]][x + d[1]])})

WithType(cells, location_type) ==
    [i \in 1..Len(cells) |-> <<cells[i][1], cells[i][2], location_type>>]

\* treasure_positions before the shuffle: room centers, dead ends, random cells
TreasurePositions(m, w, h, rs, mons, seed) ==
    LET centers == SelectSeq([i \in 1..Len(rs) |-> <<rs[i].center_x, rs[i].center_y>>],
                             LAMBDA c : NotInMonsters(mons, c[1], c[2]))
        dead_ends == ScanCells(w, h,
                        [y \in 1..(h - 2) |-> [x \in 1..(w - 2) |->
                            m[y][x] \in {1, 3} /\ AdjacentFloors(m, w, h, x, y) <= 2]])
        randoms == ScanCells(w, h,
                        [y \in 1..(h - 2) |-> [x \in 1..(w - 2) |->
                            Walkable(m[y][x]) /\ NotInMonsters(mons, x, y)
                                /\ SampleHit(seed, w, x, y)]])
    IN  WithType(centers, "room_center") \o WithType(dead_ends, "dead_end")
            \o WithType(randoms, "random")

\* the cell may take a treasure: (x, z) not in self.monsters and not in treasures
TreasureAllowed(mons, placed, x, z) ==
    NotInMonsters(mons, x, z) /\ <<x, z>> \notin DOMAIN placed

\* the placement loop over the shuffled candidates lo .. hi (from 0)
RECURSIVE PlaceTreasuresLoop(_, _, _, _, _, _, _)
PlaceTreasuresLoop(cands, mons, seed, num, placed, lo, hi) ==
    IF lo > hi \/ Cardinality(DOMAIN placed) >= num THEN placed
    ELSE IF lo = hi
    THEN LET c == cands[ShuffleIndex(Len(cands), seed, lo)] IN
         IF TreasureAllowed(mons, placed, c[1], c[2])
         THEN [k \in DOMAIN placed \cup {<<c[1], c[2]>>} |->
                  IF k \in DOMAIN placed THEN placed[k]
                  ELSE [opened |-> FALSE,
                        contents |-> TreasureContents(seed, c[3], c[1], c[2])]]
         ELSE placed
    ELSE LET mid == (lo + hi) \div 2 IN
         PlaceTreasuresLoop(cands, mons, seed, num,
                            PlaceTreasuresLoop(cands, mons, seed, num, placed, lo, mid),
                            mid + 1, hi)

\* place_treasures: the dict, keyed by (x, z)
PlaceTreasures(m, w, h, rs, mons, seed) ==
    LET cands == TreasurePositions(m, w, h, rs, mons, seed) IN
    PlaceTreasuresLoop(cands, mons, seed, NumTreasures(seed), <<>>, 0, Len(cands) - 1)

----------------------------------------------------------------------------
(* MazeMap(width, height) as one step, its random draws taken from a seed:   *)
(* the loops of generate_maze, add_rooms and add_random_connections run to   *)
(* their end with the operators above.                                       *)

\* the j-th random number drawn in iteration i of a loop
Draw(seed, i, j) == (7919 * seed + 4729 * i + 1297 * j + 12345 + i * i * (seed + 1)) % 65536

Remove(seq, i) == SubSeq(seq, 1, i - 1) \o SubSeq(seq, i + 1, Len(seq))

\* random.shuffle of four items: the k-th order, k in 0 .. 23
KthPerm(k) ==
    LET s1 == <<1, 2, 3, 4>>
        i1 == (k \div 6) + 1
        s2 == Remove(s1, i1)
        i2 == ((k % 6) \div 2) + 1
        s3 == Remove(s2, i2)
        i3 == (k % 2) + 1
        s4 == Remove(s3, i3)
    IN  <<s1[i1], s2[i2], s3[i3], s4[1]>>

\* random.randrange(start, stop, step) for the random number r (the range is
\* not empty)
DrawRange(start, stop, step, r) ==
    start + step * (r % (((stop - start) + step - 1) \div step))

\* the iterations lo .. hi of `while stack`; st = [maze, stack]
RECURSIVE RunCarve(_, _, _, _, _, _)
RunCarve(w, h, seed, st, lo, hi) ==
    IF lo > hi \/ st.stack = <<>> THEN st
    ELSE IF lo = hi
    THEN CarveStepOf(st.maze, st.stack, w, h, KthPerm(Draw(seed, lo, 0) % 24))
    ELSE LET mid == (lo + hi) \div 2 IN
         RunCarve(w, h, seed, RunCarve(w, h, seed, st, lo, mid), mid + 1, hi)

\* the coarse cells a skeleton can have: each is pushed and popped once
CoarseCells(w, h) == ((w \div 12) + 1) * ((h \div 12) + 1)

\* one iteration of add_rooms' loop, numbered i; st = [maze, rooms, error]
RoomStepOf(w, h, seed, st, i) ==
    LET room_w == DrawRange(15, 26, 2, Draw(seed, i, 1))
        room_h == DrawRange(15, 26, 2, Draw(seed, i, 2))
    IN  IF RandRange(5, w - room_w - 5, 2) = {} \/ RandRange(5, h - room_h - 5, 2) = {}
        THEN [st EXCEPT !.error = "ValueError"]
        ELSE LET room_x == DrawRange(5, w - room_w - 5, 2, Draw(seed, i, 3))
                 room_y == DrawRange(5, h - room_h - 5, 2, Draw(seed, i, 4))
             IN  IF MostlyWalls(RowWalls(st.maze, h, room_x, room_w), room_y, room_w, room_h)
                 THEN AcceptRoomOf(st.maze, w, h, FALSE, st.rooms, room_x, room_y,
                                   room_w, room_h, KthPerm(Draw(seed, i, 5) % 24),
                                   2 + (Draw(seed, i, 6) % 3))
                 ELSE st

\* the iterations lo .. hi of add_rooms' loop, up to the first exception
RECURSIVE RunRooms(_, _, _, _, _, _)
RunRooms(w, h, seed, st, lo, hi) ==
    IF lo > hi \/ st.error # "none" THEN st
    ELSE IF lo = hi THEN RoomStepOf(w, h, seed, st, lo)
    ELSE LET mid == (lo + hi) \div 2 IN
         RunRooms(w, h, seed, RunRooms(w, h, seed, st, lo, mid), mid + 1, hi)

\* the iterations lo .. hi of add_random_connections' loop; st = [maze, added]
RECURSIVE RunConnections(_, _, _, _, _, _, _)
RunConnections(w, h, seed, max_conn, st, lo, hi) ==
    IF lo > hi \/ st.added >= max_conn THEN st
    ELSE IF lo = hi
    THEN LET r == AddConnectionOf(st.maze,
                                  DrawRange(2, w - 2, 1, Draw(seed, lo, 7)),
                                  DrawRange(2, h - 2, 1, Draw(seed, lo, 8)),
                                  (Draw(seed, lo, 9) % 10) < 3,
                                  (Draw(seed, lo, 10) % 10) < 3)
         IN  [maze |-> r.maze, added |-> st.added + r.added]
    ELSE LET mid == (lo + hi) \div 2 IN
         RunConnections(w, h, seed, max_conn,
                        RunConnections(w, h, seed, max_conn, st, lo, mid), mid + 1, hi)

\* generate_maze: [maze, error]
GenerateMaze(w, h, seed) ==
    LET carved == RunCarve(w, h, seed,
                           [maze |-> StartMaze(w, h),
                            stack |-> <<<<StartCoord(w), StartCoord(h)>>>>],
                           1, 2 * CoarseCells(w, h))
        num_rooms == 8 + (Draw(seed, 0, 11) % 8)
        roomed == RunRooms(w, h, seed,
                           [maze |-> carved.maze, rooms |-> <<>>, error |-> "none"],
                           1, num_rooms)
        max_conn == 15 + (Draw(seed, 0, 12) % 11)
        connected == RunConnections(w, h, seed, max_conn,
                                    [maze |-> roomed.maze, added |-> 0], 1, 3 * max_conn)
    IN  IF roomed.error # "none" THEN [maze |-> roomed.maze, error |-> roomed.error]
        ELSE [maze |-> connected.maze, error |-> "none"]

\* MazeMap(w, h): the fields of the object, or the exception raised
MazeMapOf(w, h, seed) ==
    LET g == GenerateMaze(OddDim(w), OddDim(h), seed)
        mons == PlaceMonsters(g.maze, OddDim(w), OddDim(h), seed)
    IN  IF g.error # "none"
        THEN [width |-> OddDim(w), height |-> OddDim(h), maze |-> g.maze, rooms |-> <<>>,
              monsters |-> <<>>, treasures |-> <<>>, error |-> g.error]
        ELSE [width |-> OddDim(w), height |-> OddDim(h), maze |-> g.maze, rooms |-> <<>>,
              monsters |-> mons,
              treasures |-> PlaceTreasures(g.maze, OddDim(w), OddDim(h), <<>>, mons, seed),
              error |-> "none"]

\* MazeMap(): width=81, height=81
DefaultWidth == 81
DefaultHeight == 81

\* the levels MazeMap() can return
Levels == {MazeMapOf(DefaultWidth, DefaultHeight, seed) : seed \in Seeds}

----------------------------------------------------------------------------
(* SpecGen: MazeMap(arg_width, arg_height) step by step *)

InitGen ==
    /\ \E s \in ReqSizes : arg_width = s[1] /\ arg_height = s[2]
    /\ width = OddDim(arg_width)
    /\ height = OddDim(arg_height)
    /\ maze = StartMaze(width, height)
    /\ stack = <<<<StartCoord(width), StartCoord(height)>>>>
    /\ has_rooms = FALSE
    /\ rooms = <<>>
    /\ rooms_left = 0
    /\ max_connections = 0
    /\ attempts_left = 0
    /\ connections_added = 0
    /\ monsters = <<>>
    /\ treasures = <<>>
    /\ pc = "carve"
    /\ error = "none"
    /\ player = [x |-> 0, z |-> 0, rotation_y |-> 0]
    /\ spawn = [x |-> 0, z |-> 0, found |-> FALSE]
    /\ call = [op |-> "none"]
    /\ steps = 0
    /\ running = FALSE

CarveStep ==
    /\ pc = "carve"
    /\ stack # <<>>
    /\ \E perm \in Perms :
          LET r == CarveStepOf(maze, stack, width, height, perm) IN
          /\ maze' = r.maze
          /\ stack' = r.stack
    /\ UNCHANGED <<gameVars, arg_width, arg_height, width, height, has_rooms, rooms, rooms_left,
                   max_connections, attempts_left, connections_added, monsters,
                   treasures, pc, error>>

\* the while loop has ended: add_rooms draws num_rooms = random.randint(8, 15)
BeginRooms ==
    /\ pc = "carve"
    /\ stack = <<>>
    /\ pc' = "rooms"
    /\ rooms_left' \in 8..15
    /\ UNCHANGED <<gameVars, arg_width, arg_height, width, height, maze, stack, has_rooms, rooms,
                   max_connections, attempts_left, connections_added, monsters,
                   treasures, error>>

\* one iteration of add_rooms' loop: room_w, room_h, room_x, room_y are drawn
\* (randrange raises ValueError on an empty range), then the footprint is tested
AddRoom ==
    /\ pc = "rooms"
    /\ rooms_left > 0
    /\ \E room_w \in RoomSizes :
          LET xs == RandRange(5, width - room_w - 5, 2) IN
          \E room_x \in IF xs = {} THEN {5} ELSE xs :
             LET row_walls == RowWalls(maze, height, room_x, room_w) IN
             \E room_h \in RoomSizes :
                LET ys == RandRange(5, height - room_h - 5, 2) IN
                IF xs = {} \/ ys = {}
                THEN /\ pc' = "raised"
                     /\ error' = "ValueError"
                     /\ UNCHANGED <<maze, rooms, rooms_left>>
                ELSE \E room_y \in ys :
                       IF ~MostlyWalls(row_walls, room_y, room_w, room_h)
                       THEN /\ rooms_left' = rooms_left - 1
                            /\ UNCHANGED <<maze, rooms, pc, error>>
                       ELSE \E perm \in IF has_rooms THEN Perms ELSE {<<1, 2, 3, 4>>},
                               max_conn \in IF has_rooms THEN 2..4 ELSE {2} :
                              LET r == AcceptRoomOf(maze, width, height, has_rooms,
                                                    rooms, room_x, room_y, room_w,
                                                    room_h, perm, max_conn)
                              IN  /\ maze' = r.maze
                                  /\ rooms' = r.rooms
                                  /\ error' = r.error
                                  /\ pc' = IF r.error = "none" THEN "rooms" ELSE "raised"
                                  /\ rooms_left' = IF r.error = "none"
                                                   THEN rooms_left - 1 ELSE rooms_left
    /\ UNCHANGED <<gameVars, arg_width, arg_height, width, height, stack, has_rooms,
                   max_connections, attempts_left, connections_added, monsters,
                   treasures>>

\* add_rooms has returned: add_random_connections draws random.randint(15, 25)
BeginConnections ==
    /\ pc = "rooms"
    /\ rooms_left = 0
    /\ pc' = "connections"
    /\ max_connections' \in 15..25
    /\ attempts_left' = max_connections' * 3
    /\ connections_added' = 0
    /\ UNCHANGED <<gameVars, arg_width, arg_height, width, height, maze, stack, has_rooms, rooms,
                   rooms_left, monsters, treasures, error>>

\* one iteration of add_random_connections' loop
AddRandomConnection ==
    /\ pc = "connections"
    /\ attempts_left > 0
    /\ connections_added < max_connections
    /\ \E d \in ConnectionDraws(maze, width, height) :
          LET r == AddConnectionOf(maze, d[1], d[2], d[3], d[4]) IN
          /\ maze' = r.maze
          /\ connections_added' = connections_added + r.added
    /\ attempts_left' = attempts_left - 1
    /\ UNCHANGED <<gameVars, arg_width, arg_height, width, height, stack, has_rooms, rooms,
                   rooms_left, max_connections, monsters, treasures, pc, error>>

\* generate_maze has returned the grid: `self.rooms = []`, then the monsters
\* and treasures are placed
FinishInit ==
    /\ pc = "connections"
    /\ attempts_left = 0 \/ connections_added >= max_connections
    /\ pc' = "done"
    /\ has_rooms' = TRUE
    /\ rooms' = <<>>
    /\ \E seed \in Seeds :
          /\ monsters' = PlaceMonsters(maze, width, height, seed)
          /\ treasures' = PlaceTreasures(maze, width, height, rooms', monsters', seed)
    /\ UNCHANGED <<gameVars, arg_width, arg_height, width, height, maze, stack, rooms_left,
                   max_connections, attempts_left, connections_added, error>>

NextGen ==
    \/ CarveStep
    \/ BeginRooms
    \/ AddRoom
    \/ BeginConnections
    \/ AddRandomConnection
    \/ FinishInit

SpecGen == InitGen /\ [][NextGen]_vars

----------------------------------------------------------------------------
(* Player: positions and speeds are floats, kept here in units of 1/Scale;   *)
(* angles are whole degrees, multiples of 45.                                *)

Scale == 1000

\* math.cos and math.sin of math.radians(deg), in units of 1/Scale
CosDeg(deg) ==
    LET d == deg % 360 IN
    CASE d = 0 -> 1000 [] d = 45 -> 707 [] d = 90 -> 0 [] d = 135 -> -707
      [] d = 180 -> -1000 [] d = 225 -> -707 [] d = 270 -> 0 [] d = 315 -> 707

SinDeg(deg) == CosDeg(deg - 90)

\* a * b for two floats
MulFix(a, b) ==
    LET p == a * b IN
    IF p >= 0 THEN (p + Scale \div 2) \div Scale ELSE -((-p + Scale \div 2) \div Scale)

\* int(v): truncation toward zero
Trunc(v) == IF v >= 0 THEN v \div Scale ELSE -((-v) \div Scale)

\* can_move_to without the boundary test: the grid is read at any index
CanMoveToUnchecked(new_x, new_z, m, w, h) ==
    LET maze_x == Trunc(new_x)
        maze_z == Trunc(new_z)
    IN  [ok |-> IF 0 <= maze_x /\ maze_x < w /\ 0 <= maze_z /\ maze_z < h
                THEN m[maze_z][maze_x] \in {1, 2, 3} ELSE FALSE,
         read |-> <<maze_x, maze_z>>]

\* Player.can_move_to: the value returned and the grid index read (<<>> if
\* none is)
CanMoveTo(new_x, new_z, m, w, h) ==
    LET buffer == 200
        maze_x == Trunc(new_x)
        maze_z == Trunc(new_z)
    IN  IF ~(buffer <= new_x /\ new_x < w * Scale - buffer
             /\ buffer <= new_z /\ new_z < h * Scale - buffer)
        THEN [ok |-> FALSE, read |-> <<>>]
        ELSE [ok |-> m[maze_z][maze_x] \in {1, 2, 3}, read |-> <<maze_x, maze_z>>]

MoveOps == {"move_forward", "move_backward", "strafe_left", "strafe_right"}

\* the unit vector an operation moves along: <<x, z>>
MoveDirection(op, rotation_y) ==
    LET cos_y == CosDeg(-rotation_y)
        sin_y == SinDeg(-rotation_y)
    IN  CASE op = "move_forward" -> <<sin_y, cos_y>>
          [] op = "move_backward" -> <<-sin_y, -cos_y>>
          [] op = "strafe_left" -> <<-cos_y, sin_y>>
          [] op = "strafe_right" -> <<cos_y, -sin_y>>

\* new_x, new_z of a move operation
MoveTarget(p, op, speed) ==
    LET d == MoveDirection(op, p.rotation_y) IN
    <<p.x + MulFix(d[1], speed), p.z + MulFix(d[2], speed)>>

\* a move that goes to its target whatever the grid holds there
MoveNoCollision(p, m, w, h, op, speed) ==
    LET t == MoveTarget(p, op, speed) IN [p EXCEPT !.x = t[1], !.z = t[2]]

\* a move that tries the slide along z before the slide along x
MoveSlidesZFirst(p, m, w, h, op, speed) ==
    LET t == MoveTarget(p, op, speed) IN
    IF CanMoveTo(t[1], t[2], m, w, h).ok THEN [p EXCEPT !.x = t[1], !.z = t[2]]
    ELSE IF CanMoveTo(p.x, t[2], m, w, h).ok THEN [p EXCEPT !.z = t[2]]
    ELSE IF CanMoveTo(t[1], p.z, m, w, h).ok THEN [p EXCEPT !.x = t[1]]
    ELSE p

\* move_forward, move_backward, strafe_left, strafe_right: the player after it
MoveOf(p, m, w, h, op, speed) ==
    LET t == MoveTarget(p, op, speed) IN
    IF ~CanMoveTo(t[1], t[2], m, w, h).ok
    THEN IF CanMoveTo(t[1], p.z, m, w, h).ok THEN [p EXCEPT !.x = t[1]]
         ELSE IF CanMoveTo(p.x, t[2], m, w, h).ok THEN [p EXCEPT !.z = t[2]]
         ELSE p
    ELSE [p EXCEPT !.x = t[1], !.z = t[2]]

----------------------------------------------------------------------------
(* Game3D: the spawn search of __init__ and regenerate_world *)

\* range(start, stop, step) as a set
Range(start, stop, step) == {v \in start..(stop - 1) : (v - start) % step = 0}

\* 0 <= test_x < width and 0 <= test_z < height and maze[test_z][test_x] in [1, 2, 3]
SpawnCellOk(m, w, h, test_x, test_z) ==
    /\ 0 <= test_x /\ test_x < w
    /\ 0 <= test_z /\ test_z < h
    /\ m[test_z][test_x] \in {1, 2, 3}

\* the first pair of S in the order of two nested loops (outer on [1])
FirstPair(S) ==
    CHOOSE c \in S : \A d \in S : c[1] < d[1] \/ (c[1] = d[1] /\ c[2] <= d[2])

\* the first room whose centre is walkable
RoomSearch(m, w, h, rs) ==
    LET ok == {i \in 1..Len(rs) : SpawnCellOk(m, w, h, rs[i].center_x, rs[i].center_y)}
        i == SetMin(ok)
    IN  IF ok = {} THEN [x |-> w \div 2, z |-> h \div 2, found |-> FALSE]
        ELSE [x |-> rs[i].center_x, z |-> rs[i].center_y, found |-> TRUE]

\* the rings offset, offset + 1, .. stop - 1 around (cx, cz), every other cell
RECURSIVE RingSearch(_, _, _, _, _, _, _)
RingSearch(m, w, h, cx, cz, offset, stop) ==
    IF offset >= stop THEN [x |-> cx, z |-> cz, found |-> FALSE]
    ELSE LET r == Range(-offset, offset + 1, 2)
             hits == {d \in r \X r : SpawnCellOk(m, w, h, cx + d[1], cz + d[2])}
         IN  IF hits # {}
             THEN [x |-> cx + FirstPair(hits)[1], z |-> cz + FirstPair(hits)[2],
                   found |-> TRUE]
             ELSE RingSearch(m, w, h, cx, cz, offset + 1, stop)

\* the scan of every step-th row and column
ScanSearch(m, w, h, step) ==
    LET hits == {c \in Range(1, h - 1, step) \X Range(1, w - 1, step) :
                    m[c[1]][c[2]] \in {1, 2, 3}}
    IN  IF hits = {} THEN [x |-> w \div 2, z |-> h \div 2, found |-> FALSE]
        ELSE [x |-> FirstPair(hits)[2], z |-> FirstPair(hits)[1], found |-> TRUE]

\* a spawn search that settles for the centre of the map
SpawnAtCentre(m, w, h, rs, ring_stop, scan_step) ==
    [x |-> w \div 2, z |-> h \div 2, found |-> TRUE]

\* room centres, then the rings around the centre, then the scan:
\* spawn_x, spawn_z, spawn_found
SpawnSearch(m, w, h, rs, ring_stop, scan_step) ==
    LET rooms_first == RoomSearch(m, w, h, rs)
        ring == RingSearch(m, w, h, w \div 2, h \div 2, 1, ring_stop)
    IN  IF rooms_first.found THEN rooms_first
        ELSE IF ring.found THEN ring
        ELSE ScanSearch(m, w, h, scan_step)

\* Method 4 of __init__: the 5x5 area around the centre forced to room
ForceCarve(m, w, h) ==
    FillRect(m, w, h, w \div 2 - 2, w \div 2 + 2, h \div 2 - 2, h \div 2 + 2, 2)

----------------------------------------------------------------------------
(* Spec: a constructed Game3D, the player's moves, the mouse look and        *)
(* regenerate_world                                                          *)

\* the level's fields go to self.maze_map
LevelVars(level, m) ==
    /\ arg_width = DefaultWidth
    /\ arg_height = DefaultHeight
    /\ width = level.width
    /\ height = level.height
    /\ maze = m
    /\ stack = <<>>
    /\ has_rooms = TRUE
    /\ rooms = level.rooms
    /\ rooms_left = 0
    /\ max_connections = 0
    /\ attempts_left = 0
    /\ connections_added = 0
    /\ monsters = level.monsters
    /\ treasures = level.treasures
    /\ pc = "done"
    /\ error = "none"

\* Game3D.__init__
Init ==
    \E level \in Levels :
       LET s == SpawnSearch(level.maze, level.width, level.height, level.rooms, 30, 3)
       IN  /\ level.error = "none"
           /\ LevelVars(level, IF s.found THEN level.maze
                               ELSE ForceCarve(level.maze, level.width, level.height))
           /\ spawn = s
           /\ player = [x |-> s.x * Scale, z |-> s.z * Scale, rotation_y |-> 0]
           /\ call = [op |-> "__init__"]
           /\ steps = 0
           /\ running = TRUE

\* Player.speed, and move_speed of handle_input with shift held
MoveSpeed(run) == IF run THEN MulFix(200, 1800) ELSE 200

\* handle_input calls a move operation of the player
Move(op) ==
    /\ steps < MaxSteps
    /\ \E run \in BOOLEAN :
          LET t == MoveTarget(player, op, MoveSpeed(run)) IN
          /\ player' = MoveOf(player, maze, width, height, op, MoveSpeed(run))
          /\ call' = [op |-> op, from_x |-> player.x, from_z |-> player.z,
                      new_x |-> t[1], new_z |-> t[2]]
    /\ steps' = steps + 1
    /\ UNCHANGED <<genVars, spawn, running>>

MoveForward == Move("move_forward")
MoveBackward == Move("move_backward")
StrafeLeft == Move("strafe_left")
StrafeRight == Move("strafe_right")

\* handle_input: rotation_y -= mouse_dx * mouse_sensitivity, at 0.15
Look ==
    /\ steps < MaxSteps
    /\ \E mouse_dx \in {-300, 300} :
          /\ -MaxYaw <= player.rotation_y - (mouse_dx * 15) \div 100
          /\ player.rotation_y - (mouse_dx * 15) \div 100 <= MaxYaw
          /\ player' = [player EXCEPT !.rotation_y = @ - (mouse_dx * 15) \div 100]
    /\ call' = [op |-> "look"]
    /\ steps' = steps + 1
    /\ UNCHANGED <<genVars, spawn, running>>

\* Game3D.regenerate_world
RegenerateWorld ==
    /\ steps < MaxSteps
    /\ \E level \in Levels :
          LET s == SpawnSearch(level.maze, level.width, level.height, level.rooms, 20, 2)
          IN  /\ level.error = "none"
              /\ width' = level.width
              /\ height' = level.height
              /\ maze' = level.maze
              /\ rooms' = level.rooms
              /\ monsters' = level.monsters
              /\ treasures' = level.treasures
              /\ spawn' = s
              /\ player' = [player EXCEPT !.x = s.x * Scale, !.z = s.z * Scale]
    /\ call' = [op |-> "regenerate_world"]
    /\ steps' = steps + 1
    /\ UNCHANGED <<arg_width, arg_height, stack, has_rooms, rooms_left, max_connections,
                   attempts_left, connections_added, pc, error, running>>

Next ==
    \/ MoveForward
    \/ MoveBackward
    \/ StrafeLeft
    \/ StrafeRight
    \/ Look
    \/ RegenerateWorld

Spec == Init /\ [][Next]_vars

----------------------------------------------------------------------------
(* SpecCan: Player.can_move_to called on a constructed game with any         *)
(* coordinates                                                               *)

\* coordinates handed to can_move_to, in units of 1/Scale: around both ends of
\* the range, on cell edges and inside the map
ProbeCoords ==
    {-1500, -200, -1, 0, 199, 200, 999, 1000, 33000, 38500, 39999, 40000, 44500,
     79999, 80000, 80799, 80800, 81000, 82500}

\* (the call changes nothing of the game: one call is made per behaviour)
CanMoveToCall ==
    /\ call.op = "__init__"
    /\ \E new_x \in ProbeCoords, new_z \in ProbeCoords :
          LET r == CanMoveTo(new_x, new_z, maze, width, height) IN
          call' = [op |-> "can_move_to", new_x |-> new_x, new_z |-> new_z,
                   ok |-> r.ok, read |-> r.read]
    /\ UNCHANGED <<genVars, player, spawn, steps, running>>

NextCan == CanMoveToCall

SpecCan == Init /\ [][NextCan]_vars

----------------------------------------------------------------------------
(* SpecProj: Camera.project_3d_to_2d called with the player as the camera    *)

\* math.tan(math.radians(self.fov / 2)) at fov = 70, in units of 1/Scale
FovFactor == 700

\* Renderer(screen_width=1024, screen_height=768)
ScreenWidth == 1024
ScreenHeight == 768

\* a / b as int() truncates it
TruncDiv(a, b) ==
    IF (a >= 0) = (b > 0) THEN (IF a >= 0 THEN a ELSE -a) \div (IF b > 0 THEN b ELSE -b)
    ELSE -((IF a >= 0 THEN a ELSE -a) \div (IF b > 0 THEN b ELSE -b))

\* rotated_x, final_y, final_z of the point at rel = <<rel_x, rel_y, rel_z>>
\* from the camera: the yaw rotation, then the pitch rotation
CameraSpace(rel, player_rot_x, player_rot_y) ==
    LET cos_y == CosDeg(-player_rot_y)
        sin_y == SinDeg(-player_rot_y)
        rotated_x == MulFix(rel[1], cos_y) - MulFix(rel[3], sin_y)
        rotated_z == MulFix(rel[1], sin_y) + MulFix(rel[3], cos_y)
        cos_x == CosDeg(player_rot_x)
        sin_x == SinDeg(player_rot_x)
    IN  [rotated_x |-> rotated_x,
         final_y |-> MulFix(rel[2], cos_x) - MulFix(rotated_z, sin_x),
         final_z |-> MulFix(rel[2], sin_x) + MulFix(rotated_z, cos_x)]

\* the perspective division: (int(screen_x), int(screen_y), final_z), or the
\* ZeroDivisionError of a zero depth
Perspective(c) ==
    IF c.final_z * FovFactor = 0 THEN [kind |-> "ZeroDivisionError"]
    ELSE [kind |-> "tuple",
          screen_x |-> TruncDiv(c.rotated_x * (ScreenWidth \div 2) * (Scale \div 100),
                                c.final_z * (FovFactor \div 100)) + ScreenWidth \div 2,
          screen_y |-> TruncDiv((-c.final_y) * (ScreenHeight \div 2) * (Scale \div 100),
                                c.final_z * (FovFactor \div 100)) + ScreenHeight \div 2,
          final_z |-> c.final_z]

\* a projection that clips only the points behind the camera
ProjectClipBehind(rel, player_rot_x, player_rot_y) ==
    LET c == CameraSpace(rel, player_rot_x, player_rot_y) IN
    IF c.final_z < 0 THEN [kind |-> "None"] ELSE Perspective(c)

\* Camera.project_3d_to_2d: None when final_z <= 0.001
ProjectOf(rel, player_rot_x, player_rot_y) ==
    LET c == CameraSpace(rel, player_rot_x, player_rot_y) IN
    IF c.final_z <= 1 THEN [kind |-> "None"] ELSE Perspective(c)

\* offsets of the point from the camera along one axis, in units of 1/Scale
ProbeOffsets == {-2000, -1, 0, 1, 2, 3000}

\* player_rot_x (clamped to -80 .. 80 by handle_input) and player_rot_y
ProbePitch == {-45, 0, 45}
ProbeYaw == {0, 45, 90, 135, 180, 225, 270, 315}

\* (one call is made per behaviour)
ProjectCall ==
    /\ call.op = "__init__"
    /\ \E rel \in ProbeOffsets \X ProbeOffsets \X ProbeOffsets,
          rot_x \in ProbePitch, rot_y \in ProbeYaw :
          call' = [op |-> "project_3d_to_2d", rel |-> rel, player_rot_x |-> rot_x,
                   player_rot_y |-> rot_y, result |-> ProjectOf(rel, rot_x, rot_y)]
    /\ UNCHANGED <<genVars, player, spawn, steps, running>>

NextProj == ProjectCall

SpecProj == Init /\ [][NextProj]_vars

----------------------------------------------------------------------------
(* Game3D.run: the frames of a running game.  A frame is handle_input (jump, *)
(* the four moves, the mouse look, the key events E, R and ESC), then        *)
(* Player.apply_physics, then the rendering calls, which only read.          *)

\* Player.jump_strength and Player.gravity, in units of 1/Scale
JumpStrength == 5000
Gravity == -15000

\* MazeMap.get_floor_height: base_level - 1.0, with base_level = 0
FloorHeight == -1000

\* ground_level of apply_physics: floor_height + player_eye_height (1.7)
GroundLevel == FloorHeight + 1700

\* create_stats()
CreateStats ==
    [gyozelmek |-> 0, veresegek |-> 0, heroikus_gyozelmek |-> 0, ossz_hp_nyert |-> 0,
     ossz_hp_veszitett |-> 0, legjobb_sorozat |-> 0, jelenlegi_sorozat |-> 0,
     szornyek |-> [n \in {"sarkany", "troll", "boszorkany"} |-> 0],
     fegyverek |-> [n \in {"varazspalca", "ij", "kard"} |-> 0],
     pontok |-> 0]

\* Player(spawn_x, spawn_z) as Game3D.__init__ leaves it: on the floor at eye
\* level floor_height + 1.7, minimum_safe_height set to it
NewPlayer(spawn_x, spawn_z) ==
    [x |-> spawn_x * Scale, y |-> FloorHeight + 1700, z |-> spawn_z * Scale,
     rotation_y |-> 0, rotation_x |-> 0, speed |-> 200, max_hp |-> 5, hp |-> 5,
     velocity_y |-> 0, is_jumping |-> FALSE, weapon |-> "kard", stats |-> CreateStats,
     experience |-> 0, level |-> 1, minimum_safe_height |-> FloorHeight + 1700]

\* a jump that does not ask whether the player is on the ground
JumpInTheAir(p) == [p EXCEPT !.velocity_y = JumpStrength, !.is_jumping = TRUE]

\* Player.jump
JumpOf(p) ==
    IF ~p.is_jumping /\ Abs(p.velocity_y) < 100
    THEN [p EXCEPT !.velocity_y = JumpStrength, !.is_jumping = TRUE]
    ELSE p

\* a physics tick without the ground collision
ApplyPhysicsNoGround(p, dt) ==
    [p EXCEPT !.velocity_y = @ + MulFix(Gravity, dt),
              !.y = @ + MulFix(p.velocity_y + MulFix(Gravity, dt), dt)]

\* Player.apply_physics with dt in units of 1/Scale seconds
ApplyPhysicsOf(p, dt) ==
    LET v == p.velocity_y + MulFix(Gravity, dt)
        y == p.y + MulFix(v, dt)
    IN  IF y <= GroundLevel
        THEN [p EXCEPT !.y = GroundLevel, !.velocity_y = 0, !.is_jumping = FALSE]
        ELSE [p EXCEPT !.y = y, !.velocity_y = v]

\* a gain_experience whose level-up leaves max_hp and hp alone
GainExperienceKeepsMaxHp(p, amount) ==
    LET e == p.experience + amount
        new_level == (e \div 100) + 1
    IN  IF new_level > p.level THEN [p EXCEPT !.experience = e, !.level = new_level]
        ELSE [p EXCEPT !.experience = e]

\* Player.gain_experience
GainExperienceOf(p, amount) ==
    LET e == p.experience + amount
        new_level == (e \div 100) + 1
    IN  IF new_level > p.level
        THEN [p EXCEPT !.experience = e, !.level = new_level, !.max_hp = @ + 1,
                       !.hp = p.max_hp + 1]
        ELSE [p EXCEPT !.experience = e]

\* the mouse look of handle_input at sensitivity 0.15, rotation_x clamped to
\* [-80, 80]
LookOf(p, mouse_dx, mouse_dy) ==
    [p EXCEPT !.rotation_y = @ - (mouse_dx * 15) \div 100,
              !.rotation_x = Max(-80, Min(80, @ - (mouse_dy * 15) \div 100))]

\* the W, S, A, D branches of handle_input, in that order, at move_speed
MoveKeys == <<<<"w", "move_forward">>, <<"s", "move_backward">>,
              <<"a", "strafe_left">>, <<"d", "strafe_right">>>>

RECURSIVE MoveKeysOf(_, _, _, _, _, _, _)
MoveKeysOf(p, m, w, h, keys, speed, i) ==
    IF i > Len(MoveKeys) THEN p
    ELSE MoveKeysOf(IF MoveKeys[i][1] \in keys
                    THEN MoveOf(p, m, w, h, MoveKeys[i][2], speed) ELSE p,
                    m, w, h, keys, speed, i + 1)

\* calculate_win_chance
CalculateWinChance(monster, weapon) ==
    IF <<monster, weapon>> \in {<<"troll", "kard">>, <<"boszorkany", "ij">>,
                                <<"sarkany", "varazspalca">>}
    THEN 85 ELSE 25

\* update_stats
UpdateStatsOf(stats, monster, weapon, won, hp_change, win_chance) ==
    LET s1 == [stats EXCEPT !.szornyek[monster] = @ + 1, !.fegyverek[weapon] = @ + 1]
        s2 == IF won
              THEN [s1 EXCEPT !.gyozelmek = @ + 1,
                              !.jelenlegi_sorozat = @ + 1,
                              !.legjobb_sorozat = Max(@, s1.jelenlegi_sorozat + 1),
                              !.heroikus_gyozelmek = IF win_chance = 25 THEN @ + 1 ELSE @,
                              !.pontok = IF win_chance = 25 THEN @ + 50 ELSE @ + 25]
              ELSE [s1 EXCEPT !.veresegek = @ + 1, !.jelenlegi_sorozat = 0,
                              !.pontok = @ - 10]
    IN  IF hp_change > 0 THEN [s2 EXCEPT !.ossz_hp_nyert = @ + hp_change]
        ELSE [s2 EXCEPT !.ossz_hp_veszitett = @ + Abs(hp_change)]


\* int(round(v)) for v >= 0: Python rounds a half to the even integer
Round(v) ==
    LET q == v \div Scale
        r == v % Scale
    IN  IF r * 2 < Scale THEN q
        ELSE IF r * 2 > Scale THEN q + 1
        ELSE IF q % 2 = 0 THEN q ELSE q + 1

\* The game as one record g: the fields of self.maze_map, self.player, the
\* spawn found last, self.running.  d holds the random draws of one frame.

\* a start_battle that drops the monster it was called for
StartBattleRemoves(g, pos, d) ==
    [g EXCEPT !.monsters = [c \in DOMAIN g.monsters \ {pos} |-> g.monsters[c]],
              !.player.experience = @ + d.exp_gain]

\* a start_battle whose lost battle never ends the game
StartBattleNeverEnds(g, pos, d) ==
    LET p == g.player
        name == g.monsters[pos].name
        win_chance == CalculateWinChance(name, p.weapon)
        hp_gain == IF win_chance = 25 THEN 2 ELSE 1
    IN  IF d.roll <= win_chance
        THEN LET p2 == GainExperienceOf([p EXCEPT !.experience = @ + d.exp_gain,
                                                  !.hp = Min(p.max_hp, p.hp + hp_gain)], 0)
             IN  [g EXCEPT !.monsters[pos].defeated = TRUE,
                           !.player = [p2 EXCEPT !.stats =
                               UpdateStatsOf(p2.stats, name, p.weapon, TRUE, hp_gain,
                                             win_chance)]]
        ELSE [g EXCEPT !.player =
                 [p EXCEPT !.hp = p.hp - 2,
                           !.stats = UpdateStatsOf(p.stats, name, p.weapon, FALSE, -2,
                                                   win_chance)]]

\* start_battle(monster, position) for the monster at pos
StartBattleOf(g, pos, d) ==
    LET p == g.player
        name == g.monsters[pos].name
        win_chance == CalculateWinChance(name, p.weapon)
        won == d.roll <= win_chance
        hp_gain == IF win_chance = 25 THEN 2 ELSE 1
        damage == 2
    IN  IF won
        THEN LET p1 == [p EXCEPT !.experience = @ + d.exp_gain,
                                 !.hp = Min(p.max_hp, p.hp + hp_gain)]
                 p2 == GainExperienceOf(p1, 0)
             IN  [g EXCEPT !.monsters[pos].defeated = TRUE,
                           !.player = [p2 EXCEPT !.stats =
                               UpdateStatsOf(p2.stats, name, p.weapon, TRUE, hp_gain,
                                             win_chance)]]
        ELSE IF p.hp - damage <= 0
             THEN [g EXCEPT !.player.hp = p.hp - damage, !.running = FALSE]
             ELSE [g EXCEPT !.player =
                      [p EXCEPT !.hp = p.hp - damage,
                                !.stats = UpdateStatsOf(p.stats, name, p.weapon, FALSE,
                                                        -damage, win_chance)]]

\* an open_treasure that retags the cell of the treasure
OpenTreasureRetags(g, pos, d) ==
    [g EXCEPT !.treasures[pos].opened = TRUE, !.maze[pos[2]][pos[1]] = 2,
              !.player.experience = @ + d.treasure_exp]

\* open_treasure(treasure) for the treasure at pos
OpenTreasureOf(g, pos, d) ==
    LET p == g.player
        content == g.treasures[pos].contents
        p1 == CASE content = "health" -> [p EXCEPT !.hp = Min(p.max_hp, p.hp + d.heal)]
                [] content = "mega_health" ->
                       [p EXCEPT !.hp = Min(p.max_hp, p.hp + d.mega_heal)]
                [] content = "points" -> [p EXCEPT !.stats.pontok = @ + d.points]
                [] OTHER -> p
        p2 == GainExperienceOf([p1 EXCEPT !.experience = @ + d.treasure_exp], 0)
    IN  [g EXCEPT !.treasures[pos].opened = TRUE, !.player = p2]

\* an undefeated monster or an unopened treasure is at cell c
ActiveAt(g, c) ==
    \/ c \in DOMAIN g.monsters /\ ~g.monsters[c].defeated
    \/ c \in DOMAIN g.treasures /\ ~g.treasures[c].opened

\* an interact that does not ask whether the monster or treasure it finds is
\* defeated or opened
InteractAgain(g, d) ==
    LET player_x == Round(g.player.x)
        player_z == Round(g.player.z)
        hits == {o \in (-2..2) \X (-2..2) :
                    /\ 4 * (o[1] * o[1] + o[2] * o[2]) <= 25
                    /\ <<player_x + o[1], player_z + o[2]>>
                          \in DOMAIN g.monsters \cup DOMAIN g.treasures}
        c == <<player_x + FirstPair(hits)[1], player_z + FirstPair(hits)[2]>>
    IN  IF hits = {} THEN g
        ELSE IF c \in DOMAIN g.monsters THEN StartBattleOf(g, c, d)
             ELSE OpenTreasureOf(g, c, d)

\* interact: the first cell, dx then dz from -2 to 2 and at most 2.5 away, with
\* an undefeated monster (a battle) or else an unopened treasure
InteractOf(g, d) ==
    LET player_x == Round(g.player.x)
        player_z == Round(g.player.z)
        hits == {o \in (-2..2) \X (-2..2) :
                    /\ 4 * (o[1] * o[1] + o[2] * o[2]) <= 25
                    /\ ActiveAt(g, <<player_x + o[1], player_z + o[2]>>)}
        c == <<player_x + FirstPair(hits)[1], player_z + FirstPair(hits)[2]>>
    IN  IF hits = {} THEN g
        ELSE IF c \in DOMAIN g.monsters /\ ~g.monsters[c].defeated
             THEN StartBattleOf(g, c, d)
             ELSE OpenTreasureOf(g, c, d)

\* a regenerate_world that keeps the entity maps of the level it replaces
RegenerateKeepsEntities(g, level) ==
    LET s == SpawnSearch(level.maze, level.width, level.height, level.rooms, 20, 2) IN
    [g EXCEPT !.width = level.width, !.height = level.height, !.maze = level.maze,
              !.rooms = level.rooms, !.spawn = s,
              !.player = [@ EXCEPT !.x = s.x * Scale, !.y = FloorHeight + 1000,
                                   !.z = s.z * Scale]]

\* a regenerate_world that builds the player anew, as Game3D.__init__ does
RegenerateWithNewPlayer(g, level) ==
    LET s == SpawnSearch(level.maze, level.width, level.height, level.rooms, 20, 2) IN
    [g EXCEPT !.width = level.width, !.height = level.height, !.maze = level.maze,
              !.rooms = level.rooms, !.monsters = level.monsters,
              !.treasures = level.treasures, !.spawn = s,
              !.player = NewPlayer(s.x, s.z)]

\* regenerate_world, MazeMap() returning level
RegenerateWorldOf(g, level) ==
    LET s == SpawnSearch(level.maze, level.width, level.height, level.rooms, 20, 2)
        player_eye_height == FloorHeight + 1000
    IN  [g EXCEPT !.width = level.width, !.height = level.height, !.maze = level.maze,
                  !.rooms = level.rooms, !.monsters = level.monsters,
                  !.treasures = level.treasures, !.spawn = s,
                  !.player = [@ EXCEPT !.x = s.x * Scale, !.y = player_eye_height,
                                       !.z = s.z * Scale,
                                       !.minimum_safe_height = player_eye_height,
                                       !.is_jumping = FALSE, !.velocity_y = 0]]

\* the KEYDOWN events of handle_input from the i-th on
RECURSIVE EventsOf(_, _, _, _, _)
EventsOf(g, events, i, level, d) ==
    IF i > Len(events) THEN g
    ELSE EventsOf(CASE events[i] = "escape" -> [g EXCEPT !.running = FALSE]
                    [] events[i] = "e" -> InteractOf(g, d)
                    [] events[i] = "r" -> RegenerateWorldOf(g, level)
                    [] OTHER -> g,
                  events, i + 1, level, d)

\* handle_input for the input inp = [keys, mouse_dx, mouse_dy, events]
HandleInputOf(g, inp, level, d) ==
    LET move_speed == MoveSpeed("shift" \in inp.keys)
        jumped == IF "space" \in inp.keys THEN JumpOf(g.player) ELSE g.player
        moved == MoveKeysOf(jumped, g.maze, g.width, g.height, inp.keys, move_speed, 1)
    IN  EventsOf([g EXCEPT !.player = LookOf(moved, inp.mouse_dx, inp.mouse_dy)],
                 inp.events, 1, level, d)

\* one iteration of run's loop: what the rendering calls get to see
FrameOf(g, inp, level, d, dt) ==
    LET g1 == HandleInputOf(g, inp, level, d) IN
    [g1 EXCEPT !.player = ApplyPhysicsOf(g1.player, dt)]

----------------------------------------------------------------------------
(* SpecPlay: the frames of Game3D.run on a constructed game: handle_input,  *)
(* apply_physics, then the rendering of what these left                     *)

\* frames run in SpecPlay
MaxFrames == 3

\* the seeds of the levels of SpecPlay: levels with a treasure, a monster and a
\* treasure, or a monster within reach of the spawn
PlaySeeds == {2, 6, 15}

PlayLevels == {MazeMapOf(DefaultWidth, DefaultHeight, seed) : seed \in PlaySeeds}

\* what the keyboard and the mouse hand to one handle_input
NoInput == [keys |-> {}, mouse_dx |-> 0, mouse_dy |-> 0, events |-> <<>>]

FrameInputs ==
    {[NoInput EXCEPT !.keys = {"w", "shift"}],
     [NoInput EXCEPT !.keys = {"s"}],
     [NoInput EXCEPT !.keys = {"a"}],
     [NoInput EXCEPT !.keys = {"d"}],
     [NoInput EXCEPT !.keys = {"space"}, !.mouse_dx = 300, !.mouse_dy = -100],
     [NoInput EXCEPT !.events = <<"e">>],
     [NoInput EXCEPT !.events = <<"r">>],
     [NoInput EXCEPT !.events = <<"escape">>]}

\* the random draws of one frame: randint(1, 100) of a battle with its
\* randint(15, 35), and the amount a treasure gives, randint(1, 2),
\* randint(2, 4) or randint(30, 75), with its randint(5, 15)
FrameDraws ==
    {[roll |-> roll,
      exp_gain |-> IF more_exp THEN 35 ELSE 15,
      heal |-> IF more THEN 2 ELSE 1,
      mega_heal |-> IF more THEN 4 ELSE 2,
      points |-> IF more THEN 75 ELSE 30,
      treasure_exp |-> IF more_exp THEN 15 ELSE 5] :
        roll \in {1, 50, 100}, more \in BOOLEAN, more_exp \in BOOLEAN}

\* the KEYDOWN event key is among the events of inp
Pressed(inp, key) == \E i \in DOMAIN inp.events : inp.events[i] = key

\* a frame without interaction draws nothing, a frame without regeneration
\* builds no level
DrawsOf(inp) ==
    IF Pressed(inp, "e") THEN FrameDraws
    ELSE {[roll |-> 1, exp_gain |-> 15, heal |-> 1, mega_heal |-> 2, points |-> 30,
           treasure_exp |-> 5]}

LevelsOf(inp) ==
    IF Pressed(inp, "r") THEN {level \in PlayLevels : level.error = "none"}
    ELSE {[error |-> "none"]}

\* clock.get_time() in milliseconds at 60 frames a second
DtValues == {16, 17}

\* the game as the record the frame operators work on
Game ==
    [width |-> width, height |-> height, maze |-> maze, rooms |-> rooms,
     monsters |-> monsters, treasures |-> treasures, player |-> player,
     spawn |-> spawn, running |-> running]

\* Game3D.__init__ with the whole player
InitPlay ==
    \E level \in PlayLevels :
       LET s == SpawnSearch(level.maze, level.width, level.height, level.rooms, 30, 3)
       IN  /\ level.error = "none"
           /\ LevelVars(level, IF s.found THEN level.maze
                               ELSE ForceCarve(level.maze, level.width, level.height))
           /\ spawn = s
           /\ player = [NewPlayer(s.x, s.z) EXCEPT
                           !.y = GroundLevel, !.minimum_safe_height = GroundLevel]
           /\ call = [op |-> "__init__"]
           /\ steps = 0
           /\ running = TRUE

\* one iteration of `while self.running` in run
RunFrame ==
    /\ running
    /\ steps < MaxFrames
    /\ \E inp \in FrameInputs, dt \in DtValues :
       \E level \in LevelsOf(inp), d \in DrawsOf(inp) :
          LET g == FrameOf(Game, inp, level, d, dt) IN
          /\ width' = g.width
          /\ height' = g.height
          /\ maze' = g.maze
          /\ rooms' = g.rooms
          /\ monsters' = g.monsters
          /\ treasures' = g.treasures
          /\ player' = g.player
          /\ spawn' = g.spawn
          /\ running' = g.running
          /\ call' = [op |-> "frame", input |-> inp]
    /\ steps' = steps + 1
    /\ UNCHANGED <<arg_width, arg_height, stack, has_rooms, rooms_left, max_connections,
                   attempts_left, connections_added, pc, error>>

NextPlay == RunFrame

SpecPlay == InitPlay /\ [][NextPlay]_vars
----------------------------------------------------------------------------
(* SpecQuest: the frames of Game3D.run in which the player, standing at the *)
(* spawn, interacts (E) or asks for a new level (R): battles and treasures   *)
(* over several levels, long enough for a level-up and for a death          *)

\* frames run in SpecQuest
MaxQuestFrames == 5

QuestInputs == {[NoInput EXCEPT !.events = <<"e">>], [NoInput EXCEPT !.events = <<"r">>]}

\* one iteration of `while self.running` in run, the input being E or R
QuestFrame ==
    /\ running
    /\ steps < MaxQuestFrames
    /\ \E inp \in QuestInputs :
       \E level \in LevelsOf(inp), d \in DrawsOf(inp) :
          LET g == FrameOf(Game, inp, level, d, 16) IN
          /\ width' = g.width
          /\ height' = g.height
          /\ maze' = g.maze
          /\ rooms' = g.rooms
          /\ monsters' = g.monsters
          /\ treasures' = g.treasures
          /\ player' = g.player
          /\ spawn' = g.spawn
          /\ running' = g.running
          /\ call' = [op |-> "frame", input |-> inp]
    /\ steps' = steps + 1
    /\ UNCHANGED <<arg_width, arg_height, stack, has_rooms, rooms_left, max_connections,
                   attempts_left, connections_added, pc, error>>

NextQuest == QuestFrame

SpecQuest == InitPlay /\ [][NextQuest]_vars
----------------------------------------------------------------------------
(* SpecRooms, SpecLoops: add_rooms(maze) and add_random_connections(maze)   *)
(* called on a constructed MazeMap(36, 36) with a grid of the caller. In a   *)
(* construction self.rooms does not exist while these passes run, and no     *)
(* returned level has a wall thin enough for a loop: the calls on a          *)
(* constructed object show what the passes do when they get to act.          *)

\* the grid of a MazeMap(36, 36)
ProbeDim == OddDim(36)

\* a grid of passages (tag 1) inside a wall border
OpenField(w, h) == FillRect(AllWalls(w, h), w, h, 1, w - 2, 1, h - 2, 1)

\* a field of passages with one solid block of walls
BlockProbe(x0, x1, y0, y1) ==
    FillRect(OpenField(ProbeDim, ProbeDim), ProbeDim, ProbeDim, x0, x1, y0, y1, 0)

\* the grids handed to add_rooms: a block the smallest footprint, 15x15,
\* just fits into, and one that reaches the left border
RoomProbes == {BlockProbe(5, 19, 5, 19), BlockProbe(0, 19, 15, 29)}

\* a constructed MazeMap(36, 36) whose passes are called with the grid m
ProbeObject(m) ==
    /\ arg_width = 36
    /\ arg_height = 36
    /\ width = ProbeDim
    /\ height = ProbeDim
    /\ maze = m
    /\ stack = <<>>
    /\ has_rooms = TRUE
    /\ rooms = <<>>
    /\ monsters = <<>>
    /\ treasures = <<>>
    /\ error = "none"
    /\ player = [x |-> 0, z |-> 0, rotation_y |-> 0]
    /\ spawn = [x |-> 0, z |-> 0, found |-> FALSE]
    /\ steps = 0
    /\ running = FALSE

\* add_rooms(m) has drawn num_rooms = random.randint(8, 15), here 8 or 9
InitRooms ==
    /\ \E m \in RoomProbes : ProbeObject(m)
    /\ pc = "rooms"
    /\ rooms_left \in {8, 9}
    /\ max_connections = 0
    /\ attempts_left = 0
    /\ connections_added = 0
    /\ call = [op |-> "add_rooms"]

NextRooms == AddRoom

SpecRooms == InitRooms /\ [][NextRooms]_vars

\* the grids handed to add_random_connections: all walls but for pairs of open
\* cells with one wall cell between them, side by side and one above the
\* other, near the border and on it, and a room cell behind its connector
LoopProbes ==
    LET pairs == <<<<4, 5>>, <<6, 5>>, <<10, 9>>, <<10, 11>>, <<1, 20>>, <<3, 20>>,
                   <<0, 25>>, <<2, 25>>, <<30, ProbeDim - 2>>, <<30, ProbeDim - 4>>>>
        opened(n) == [y \in 0..(ProbeDim - 1) |-> [x \in 0..(ProbeDim - 1) |->
                        IF \E i \in 1..n : pairs[i] = <<x, y>> THEN 1 ELSE 0]]
    IN  {opened(10), SetCell(SetCell(opened(2), 20, 14, 3), 20, 16, 2)}

\* add_random_connections(m) has drawn max_connections = random.randint(15, 25),
\* here 15 or 25
InitLoops ==
    /\ \E m \in LoopProbes : ProbeObject(m)
    /\ pc = "connections"
    /\ rooms_left = 0
    /\ max_connections \in {15, 25}
    /\ attempts_left = max_connections * 3
    /\ connections_added = 0
    /\ call = [op |-> "add_random_connections"]

NextLoops == AddRandomConnection

SpecLoops == InitLoops /\ [][NextLoops]_vars

----------------------------------------------------------------------------
(* SpecMove: one call of a move operation on a player who stands, or is in  *)
(* the air, somewhere in the two cells before the spawn corner               *)

\* x and z of the player before the call: in the cells 38 and 39, at the
\* spawn and close to the cell borders
ProbeSpots == {38900, 39000, 39500, 39800, 39900}

\* rotation_y before the call
ProbeRotations == {0, 45, 90, 135, 180, 225, 270, 315}

\* y, velocity_y, is_jumping before the call: standing, and rising in a jump
ProbeVertical == {<<GroundLevel, 0, FALSE>>, <<GroundLevel + 800, 2600, TRUE>>}

InitMove ==
    \E level \in Levels, x \in ProbeSpots, z \in ProbeSpots,
       rot \in ProbeRotations, v \in ProbeVertical :
       LET s == SpawnSearch(level.maze, level.width, level.height, level.rooms, 30, 3)
       IN  /\ level.error = "none"
           /\ Walkable(level.maze[Trunc(z)][Trunc(x)])
           /\ LevelVars(level, level.maze)
           /\ spawn = s
           /\ player = [NewPlayer(s.x, s.z) EXCEPT
                           !.x = x, !.z = z, !.rotation_y = rot, !.rotation_x = 15,
                           !.y = v[1], !.velocity_y = v[2], !.is_jumping = v[3],
                           !.minimum_safe_height = GroundLevel]
           /\ call = [op |-> "__init__"]
           /\ steps = 0
           /\ running = TRUE

\* handle_input calls a move operation with move_speed, once
MoveCall(op) ==
    /\ steps = 0
    /\ \E run \in BOOLEAN :
          LET t == MoveTarget(player, op, MoveSpeed(run)) IN
          /\ player' = MoveOf(player, maze, width, height, op, MoveSpeed(run))
          /\ call' = [op |-> op, before |-> player, new_x |-> t[1], new_z |-> t[2]]
    /\ steps' = 1
    /\ UNCHANGED <<genVars, spawn, running>>

NextMove ==
    \/ MoveCall("move_forward")
    \/ MoveCall("move_backward")
    \/ MoveCall("strafe_left")
    \/ MoveCall("strafe_right")

SpecMove == InitMove /\ [][NextMove]_vars

----------------------------------------------------------------------------
(* SpecRender: Renderer.render_terrain, the three geometry passes of a      *)
(* frame: render_ground_plane, render_maze_walls, render_terrain_surfaces.  *)
(* The passes only read the game; a step is one iteration of a pass's cell  *)
(* loop, with the primitives it puts on the pass's draw list.               *)

\* MazeMap.wall_height, in units of 1/Scale
WallHeight == 8000

\* render_range of render_maze_walls, render_distance and grid_size of
\* render_ground_plane, step of render_terrain_surfaces
RenderRange == 25
RenderDistance == 35
GridSize == 2
TerrainStep == 2

\* range(start, stop, step)
RangeStep(start, stop, step) ==
    IF stop <= start THEN {}
    ELSE {start + step * k : k \in 0..((stop - 1 - start) \div step)}

\* the largest r with r * r <= n, searched between lo and hi
RECURSIVE SqrtBetween(_, _, _)
SqrtBetween(n, lo, hi) ==
    IF lo >= hi THEN lo
    ELSE LET mid == (lo + hi + 1) \div 2 IN
         IF mid * mid <= n THEN SqrtBetween(n, mid, hi)
         ELSE SqrtBetween(n, lo, mid - 1)

\* (dx*dx + dz*dz)**0.5 for dx, dz in units of 1/Scale, rounded down
Hypot(dx, dz) == SqrtBetween(dx * dx + dz * dz, 0, 46340)

\* the projection of a world point for the player's camera
ProjectPoint(v, p) ==
    ProjectOf(<<v[1] - p.x, v[2] - p.y, v[3] - p.z>>, p.rotation_x, p.rotation_y)

\* MazeMap.is_wall_occluded: a ray from the player to the wall cell's corner,
\* sampled every 0.5, meets another wall cell; never for a wall nearer than 3
IsWallOccluded(wall_x, wall_z, p, m, w, h) ==
    LET dx == wall_x * Scale - p.x
        dz == wall_z * Scale - p.z
        distance_to_wall == Hypot(dx, dz)
        steps_n == distance_to_wall \div (Scale \div 2)
    IN  IF dx * dx + dz * dz < 9 * Scale * Scale THEN FALSE
        ELSE \E i \in 1..(steps_n - 1) :
                LET check_x == p.x + MulFix(TruncDiv(dx * Scale, distance_to_wall),
                                            i * (Scale \div 2))
                    check_z == p.z + MulFix(TruncDiv(dz * Scale, distance_to_wall),
                                            i * (Scale \div 2))
                    maze_x == Trunc(check_x)
                    maze_z == Trunc(check_z)
                IN  /\ 0 <= maze_x /\ maze_x < w /\ 0 <= maze_z /\ maze_z < h
                    /\ m[maze_z][maze_x] = 0
                    /\ (maze_x # wall_x \/ maze_z # wall_z)

\* directions of render_maze_walls: north, east, south, west
FaceDirections == <<<<0, 1>>, <<1, 0>>, <<0, -1>>, <<-1, 0>>>>

\* v1 .. v4 of the face of wall cell (x, z) towards direction d, floor_level 0
WallFaceVertices(x, z, d) ==
    LET X0 == x * Scale
        X1 == (x + 1) * Scale
        Z0 == z * Scale
        Z1 == (z + 1) * Scale
    IN  IF d[1] = 0
        THEN IF d[2] = 1
             THEN <<<<X0, 0, Z1>>, <<X1, 0, Z1>>, <<X1, WallHeight, Z1>>, <<X0, WallHeight, Z1>>>>
             ELSE <<<<X1, 0, Z0>>, <<X0, 0, Z0>>, <<X0, WallHeight, Z0>>, <<X1, WallHeight, Z0>>>>
        ELSE IF d[1] = 1
             THEN <<<<X1, 0, Z1>>, <<X1, 0, Z0>>, <<X1, WallHeight, Z0>>, <<X1, WallHeight, Z1>>>>
             ELSE <<<<X0, 0, Z0>>, <<X0, 0, Z1>>, <<X0, WallHeight, Z1>>, <<X0, WallHeight, Z0>>>>

\* sum of the depths of the corners of pr that are marked in ok
RECURSIVE SumDepths(_, _, _)
SumDepths(pr, ok, i) ==
    IF i = 0 THEN 0
    ELSE SumDepths(pr, ok, i - 1) + (IF ok[i] THEN pr[i].final_z ELSE 0)

\* the screen points of the corners of pr that are marked in ok, in order
RECURSIVE ScreenPoints(_, _, _, _)
ScreenPoints(pr, ok, i, clamp) ==
    IF i = 0 THEN <<>>
    ELSE LET before == ScreenPoints(pr, ok, i - 1, clamp) IN
         IF ok[i]
         THEN Append(before,
                     IF clamp
                     THEN <<Max(-200, Min(ScreenWidth + 200, pr[i].screen_x)),
                            Max(-200, Min(ScreenHeight + 200, pr[i].screen_y))>>
                     ELSE <<pr[i].screen_x, pr[i].screen_y>>)
         ELSE before

\* the body of render_maze_walls for one face: the four projections, the
\* clamped screen vertices, avg_distance = sum(distances) / 4, and whether the
\* quad is appended to wall_quads (len(screen_vertices) >= 2)
WallQuadOf(verts, p) ==
    LET pr == [i \in 1..4 |-> ProjectPoint(verts[i], p)]
        ok == [i \in 1..4 |-> pr[i].kind = "tuple" /\ pr[i].final_z > 1]
        screen_vertices == ScreenPoints(pr, ok, 4, TRUE)
    IN  [corners |-> pr, projected |-> ok, screen_vertices |-> screen_vertices,
         avg_distance |-> SumDepths(pr, ok, 4) \div 4,
         listed |-> Len(screen_vertices) >= 2]

\* the cells the loops of render_maze_walls visit
WallCells(p, w, h) ==
    RangeStep(Max(0, Trunc(p.x) - RenderRange), Min(w, Trunc(p.x) + RenderRange), 1)
    \X RangeStep(Max(0, Trunc(p.z) - RenderRange), Min(h, Trunc(p.z) + RenderRange), 1)

\* the faces render_maze_walls builds at the visited cell (x, z): none for a
\* cell that is not wall, too far (more than render_range + 5) or occluded,
\* else one per direction whose neighbour is inside the grid and not wall
WallFacesOf(x, z, p, m, w, h) ==
    LET dx == x * Scale - p.x
        dz == z * Scale - p.z
        faces == {i \in 1..4 :
                     LET adj_x == x + FaceDirections[i][1]
                         adj_z == z + FaceDirections[i][2]
                     IN  /\ 0 <= adj_x /\ adj_x < w /\ 0 <= adj_z /\ adj_z < h
                         /\ m[adj_z][adj_x] # 0}
    IN  IF m[z][x] # 0 THEN {}
        ELSE IF dx * dx + dz * dz > (RenderRange + 5) * (RenderRange + 5) * Scale * Scale
        THEN {}
        ELSE IF IsWallOccluded(x, z, p, m, w, h) THEN {}
        ELSE {[direction |-> FaceDirections[i],
               quad |-> WallQuadOf(WallFaceVertices(x, z, FaceDirections[i]), p)] : i \in faces}

\* the cells the loops of render_ground_plane visit: the corners (x, z) of
\* the grid_size squares
GroundCells(p, w, h) ==
    RangeStep(Max(0, Trunc(p.x - RenderDistance * Scale)),
              Min(w, Trunc(p.x + RenderDistance * Scale)) - GridSize, GridSize)
    \X RangeStep(Max(0, Trunc(p.z - RenderDistance * Scale)),
                 Min(h, Trunc(p.z + RenderDistance * Scale)) - GridSize, GridSize)

\* the body of render_ground_plane for the square at (x, z): nothing over a
\* wall cell; else the four corners at floor_y = base_level - 1.0, kept when
\* all four have a depth in (0.001, 120) and the average depth is below 80
GroundQuadsOf(x, z, p, m, w, h) ==
    LET maze_x == Max(0, Min(w - 1, x + GridSize \div 2))
        maze_z == Max(0, Min(h - 1, z + GridSize \div 2))
        corners == <<<<x * Scale, FloorHeight, z * Scale>>,
                     <<(x + GridSize) * Scale, FloorHeight, z * Scale>>,
                     <<(x + GridSize) * Scale, FloorHeight, (z + GridSize) * Scale>>,
                     <<x * Scale, FloorHeight, (z + GridSize) * Scale>>>>
        pr == [i \in 1..4 |-> ProjectPoint(corners[i], p)]
        ok == [i \in 1..4 |-> /\ pr[i].kind = "tuple"
                              /\ pr[i].final_z > 1
                              /\ pr[i].final_z < 120 * Scale]
        screen_corners == ScreenPoints(pr, ok, 4, FALSE)
        avg_distance == SumDepths(pr, ok, 4) \div 4
    IN  IF ~Walkable(m[maze_z][maze_x]) THEN {}
        ELSE {[corners |-> pr, projected |-> ok, screen_vertices |-> screen_corners,
               avg_distance |-> avg_distance,
               listed |-> Len(screen_corners) = 4 /\ avg_distance < 80 * Scale]}

\* the cells the loops of render_terrain_surfaces visit
TerrainCells(w, h) ==
    RangeStep(0, w - TerrainStep, TerrainStep) \X RangeStep(0, h - TerrainStep, TerrainStep)

\* height_variation of convert_maze_to_terrain, random.uniform(2.0, 4.0)
HeightVariations == {2000, 3000, 4000}

\* MazeMap.terrain[z][x], with the wall heights raised by variation
TerrainAt(m, x, z, variation) == IF m[z][x] = 0 THEN WallHeight + variation ELSE 0

\* the body of render_terrain_surfaces for the square at (x, z): its two
\* triangles, each kept when its three points project onto the screen with a
\* depth in (0.001, 100) and the average depth is at most 150
TerrainTrianglesOf(x, z, p, m, variation) ==
    LET corners == <<<<x * Scale, TerrainAt(m, x, z, variation), z * Scale>>,
                     <<(x + TerrainStep) * Scale,
                       TerrainAt(m, x + TerrainStep, z, variation), z * Scale>>,
                     <<x * Scale, TerrainAt(m, x, z + TerrainStep, variation),
                       (z + TerrainStep) * Scale>>,
                     <<(x + TerrainStep) * Scale,
                       TerrainAt(m, x + TerrainStep, z + TerrainStep, variation),
                       (z + TerrainStep) * Scale>>>>
        Triangle(tri) ==
            LET pr == [i \in 1..3 |-> ProjectPoint(tri[i], p)]
                ok == [i \in 1..3 |-> /\ pr[i].kind = "tuple"
                                      /\ pr[i].final_z > 1
                                      /\ pr[i].final_z < 100 * Scale
                                      /\ 0 <= pr[i].screen_x /\ pr[i].screen_x < ScreenWidth
                                      /\ 0 <= pr[i].screen_y /\ pr[i].screen_y < ScreenHeight]
                screen_points == ScreenPoints(pr, ok, 3, FALSE)
                avg_distance == SumDepths(pr, ok, 3) \div 3
            IN  [corners |-> pr, projected |-> ok, screen_vertices |-> screen_points,
                 avg_distance |-> avg_distance,
                 listed |-> Len(screen_points) = 3 /\ avg_distance <= 150 * Scale]
    IN  {Triangle(<<corners[1], corners[2], corners[3]>>),
         Triangle(<<corners[2], corners[4], corners[3]>>)}

\* player.rotation_x and player.rotation_y of the rendered frames
RenderPitch == {0, 45}
RenderYaw == {0, 45, 90, 225}

\* a constructed game, the player at the spawn looking anywhere
InitRender ==
    \E level \in Levels, rot_y \in RenderYaw, rot_x \in RenderPitch :
       LET s == SpawnSearch(level.maze, level.width, level.height, level.rooms, 30, 3)
       IN  /\ level.error = "none"
           /\ s.found
           /\ LevelVars(level, level.maze)
           /\ spawn = s
           /\ player = [NewPlayer(s.x, s.z) EXCEPT !.rotation_y = rot_y, !.rotation_x = rot_x]
           /\ call = [op |-> "__init__"]
           /\ steps = 0
           /\ running = TRUE

\* one iteration of the cell loops of render_ground_plane
RenderGroundStep ==
    /\ steps = 0
    /\ \E c \in GroundCells(player, width, height) :
          call' = [op |-> "render_ground_plane", x |-> c[1], z |-> c[2],
                   quads |-> GroundQuadsOf(c[1], c[2], player, maze, width, height)]
    /\ steps' = 1
    /\ UNCHANGED <<genVars, player, spawn, running>>

\* one iteration of the cell loops of render_maze_walls
RenderWallsStep ==
    /\ steps = 0
    /\ \E c \in WallCells(player, width, height) :
          call' = [op |-> "render_maze_walls", x |-> c[1], z |-> c[2],
                   quads |-> {f.quad : f \in WallFacesOf(c[1], c[2], player, maze,
                                                         width, height)}]
    /\ steps' = 1
    /\ UNCHANGED <<genVars, player, spawn, running>>

\* one iteration of the cell loops of render_terrain_surfaces
RenderTerrainStep ==
    /\ steps = 0
    /\ \E c \in TerrainCells(width, height), variation \in HeightVariations :
          call' = [op |-> "render_terrain_surfaces", x |-> c[1], z |-> c[2],
                   quads |-> TerrainTrianglesOf(c[1], c[2], player, maze, variation)]
    /\ steps' = 1
    /\ UNCHANGED <<genVars, player, spawn, running>>

NextRender ==
    \/ RenderGroundStep
    \/ RenderWallsStep
    \/ RenderTerrainStep

SpecRender == InitRender /\ [][NextRender]_vars

----------------------------------------------------------------------------
(* SpecJump: the vertical motion of the player: calls of jump, of            *)
(* apply_physics and of regenerate_world in any order on a constructed game; *)
(* SpecJumpFair: the same with the physics ticks of run's loop, whose dt is  *)
(* positive from the second frame on, never ceasing                          *)

\* dt of a tick in milliseconds: the first frame (0), and slow frames
TickDts == {0, 50, 100}

\* handle_input: self.player.jump()
JumpCall ==
    /\ player' = JumpOf(player)
    /\ call' = [op |-> "jump", before |-> player]
    /\ UNCHANGED <<genVars, spawn, steps, running>>

\* run: self.player.apply_physics(self.maze_map, dt)
PhysicsCall(dt) ==
    /\ player' = ApplyPhysicsOf(player, dt)
    /\ call' = [op |-> "apply_physics", before |-> player, dt |-> dt]
    /\ UNCHANGED <<genVars, spawn, steps, running>>

PhysicsTick == \E dt \in TickDts : PhysicsCall(dt)

PositiveTick == \E dt \in TickDts \ {0} : PhysicsCall(dt)

\* handle_input: self.regenerate_world()
RegenerateCall ==
    /\ \E level \in LevelsOf([NoInput EXCEPT !.events = <<"r">>]) :
          LET g == RegenerateWorldOf(Game, level) IN
          /\ width' = g.width
          /\ height' = g.height
          /\ maze' = g.maze
          /\ rooms' = g.rooms
          /\ monsters' = g.monsters
          /\ treasures' = g.treasures
          /\ player' = g.player
          /\ spawn' = g.spawn
    /\ call' = [op |-> "regenerate_world", before |-> player]
    /\ UNCHANGED <<arg_width, arg_height, stack, has_rooms, rooms_left, max_connections,
                   attempts_left, connections_added, pc, error, steps, running>>

NextJump ==
    \/ JumpCall
    \/ PhysicsTick
    \/ RegenerateCall

SpecJump == InitPlay /\ [][NextJump]_vars

SpecJumpFair == SpecJump /\ WF_vars(PositiveTick)

----------------------------------------------------------------------------
(* Reachability in a grid, for the statements below *)

Neighbours4(c) ==
    {<<c[1] + 1, c[2]>>, <<c[1] - 1, c[2]>>, <<c[1], c[2] + 1>>, <<c[1], c[2] - 1>>}

InGrid(w, h, c) == 0 <= c[1] /\ c[1] < w /\ 0 <= c[2] /\ c[2] < h

\* one breadth-first layer: st = [reached, frontier]
FloodStep(m, w, h, st) ==
    LET new == {c \in UNION {Neighbours4(f) : f \in st.frontier} :
                   InGrid(w, h, c) /\ m[c[2]][c[1]] # 0 /\ c \notin st.reached}
    IN  [reached |-> st.reached \cup new, frontier |-> new]

\* up to n layers
RECURSIVE Flood(_, _, _, _, _)
Flood(m, w, h, st, n) ==
    IF st.frontier = {} THEN st
    ELSE IF n <= 1 THEN FloodStep(m, w, h, st)
    ELSE Flood(m, w, h, Flood(m, w, h, st, n \div 2), n - n \div 2)

\* the non-Wall cells joined to the non-Wall cell `from` by 4-neighbour steps
FloodFill(m, w, h, from) ==
    Flood(m, w, h, [reached |-> {from}, frontier |-> {from}], w * h).reached

OpenCells(m, w, h) ==
    {c \in (0..(w - 1)) \X (0..(h - 1)) : m[c[2]][c[1]] # 0}

StartCell == <<StartCoord(width), StartCoord(height)>>

\* MazeMap(arg_width, arg_height) has returned an object
Constructed == pc = "done"

----------------------------------------------------------------------------
(* Statements about level construction (SpecGen) *)

\* C1  Connectivity: in every grid that construction returns, every non-Wall
\* cell is reachable from the start cell by 4-neighbour steps through non-Wall
\* cells.
C1_Connectivity ==
    Constructed =>
        OpenCells(maze, width, height) \subseteq FloodFill(maze, width, height, StartCell)

\* a returned grid whose skeleton reaches a coarse cell other than the start
C1_Witness ==
    /\ Constructed
    /\ \E c \in OpenCells(maze, width, height) :
          Abs(c[1] - StartCell[1]) + Abs(c[2] - StartCell[2]) >= 12

\* C2  Border invariant: in every grid that construction returns, every cell
\* of row 0, row height-1, column 0 and column width-1 is Wall.
C2_BorderIsWall ==
    Constructed =>
        /\ \A x \in 0..(width - 1) : maze[0][x] = 0 /\ maze[height - 1][x] = 0
        /\ \A y \in 0..(height - 1) : maze[y][0] = 0 /\ maze[y][width - 1] = 0

\* C3  Odd dimensions of at least the minimum size: the effective width and
\* height are odd, and no construction is stopped by a size too small for the
\* rooms it draws (random.randrange raising ValueError).
C3_OddAndLargeEnough ==
    /\ width % 2 = 1
    /\ height % 2 = 1
    /\ error # "ValueError"

----------------------------------------------------------------------------
(* Statements about the running game (Spec) *)

\* the tag of the grid cell under the position (x, z)
CellUnder(x, z) == maze[Trunc(z)][Trunc(x)]

AimedAtWall ==
    /\ call.op \in MoveOps
    /\ CellUnder(call.new_x, call.new_z) = 0

----------------------------------------------------------------------------
(* Statements about single calls (SpecCan, SpecProj) *)

\* C8  can_move_to(x, z) returns true exactly when 0.2 <= x < width - 0.2 and
\* 0.2 <= z < height - 0.2 and the cell (floor(x), floor(z)) is Corridor, Room
\* or Door; it never reads the grid outside its bounds.
C8_CanMoveTo ==
    call.op = "can_move_to" =>
        /\ call.ok <=>
              /\ 200 <= call.new_x /\ call.new_x < width * Scale - 200
              /\ 200 <= call.new_z /\ call.new_z < height * Scale - 200
              /\ maze[call.new_z \div Scale][call.new_x \div Scale] \in {1, 2, 3}
        /\ call.read # <<>> =>
              /\ 0 <= call.read[1] /\ call.read[1] < width
              /\ 0 <= call.read[2] /\ call.read[2] < height

\* a call with a negative coordinate, refused without a read of the grid
C8_Witness ==
    /\ call.op = "can_move_to"
    /\ call.new_x < 0
    /\ ~call.ok
    /\ call.read = <<>>

\* C9  project_3d_to_2d returns None exactly when the depth final_z after the
\* yaw-then-pitch rotation is <= 0.001; a point at the camera position yields
\* None without raising, and every other result is a tuple whose depth is
\* > 0.001.
C9_NearPlane ==
    call.op = "project_3d_to_2d" =>
        LET c == CameraSpace(call.rel, call.player_rot_x, call.player_rot_y) IN
        /\ call.result.kind = "None" <=> c.final_z <= 1
        /\ call.rel = <<0, 0, 0>> => call.result.kind = "None"
        /\ call.result.kind # "None" =>
              call.result.kind = "tuple" /\ call.result.final_z > 1

\* the point at the camera position, projected to None
C9_Witness ==
    /\ call.op = "project_3d_to_2d"
    /\ call.rel = <<0, 0, 0>>
    /\ call.result.kind = "None"

----------------------------------------------------------------------------
(* Statements about the placement of monsters and treasures (SpecGen) *)

\* C5  Entity disjointness: after place_monsters and place_treasures no grid
\* coordinate is a key of both the monster map and the treasure map.
C5_Disjoint ==
    Constructed => DOMAIN monsters \cap DOMAIN treasures = {}

\* a treasure placed right next to a monster
C5_Witness ==
    /\ Constructed
    /\ \E t \in DOMAIN treasures, mc \in DOMAIN monsters :
          Abs(t[1] - mc[1]) + Abs(t[2] - mc[2]) = 1

\* C6  Entity validity: every coordinate that holds a monster or a treasure is
\* in bounds, off the border, and its cell is Corridor, Room or Door.
C6_OnFloor ==
    Constructed =>
        \A c \in DOMAIN monsters \cup DOMAIN treasures :
           /\ 1 <= c[1] /\ c[1] <= width - 2
           /\ 1 <= c[2] /\ c[2] <= height - 2
           /\ maze[c[2]][c[1]] \in {1, 2, 3}

\* a level with at least 20 monsters and a treasure
C6_Witness ==
    /\ Constructed
    /\ Cardinality(DOMAIN monsters) >= 20
    /\ DOMAIN treasures # {}

----------------------------------------------------------------------------
(* Statements about the skeleton and the later passes of generate_maze      *)

\* a non-Wall cell of m within 2 cells of the ring next to the border, on the
\* named side: the ring is column 1 / w - 2, row 1 / h - 2
NearSide(m, w, h, side) ==
    \E y \in 0..(h - 1), x \in 0..(w - 1) :
       /\ m[y][x] # 0
       /\ CASE side = "left" -> x <= 3
            [] side = "right" -> x >= w - 4
            [] side = "top" -> y <= 3
            [] side = "bottom" -> y >= h - 4

\* C11  Maze spread on a small level: for requested width = 21, height = 21
\* generation raises nothing, and once the stack loop has ended the skeleton
\* has a non-Wall cell within 2 cells of the border-adjacent ring on each of
\* the four sides.
C11_SmallLevelSpread ==
    (arg_width = 21 /\ arg_height = 21) =>
        /\ pc # "raised"
        /\ pc # "carve" => \A side \in {"left", "right", "top", "bottom"} :
                              NearSide(maze, width, height, side)

----------------------------------------------------------------------------
(* Statements about the frames of a running game (SpecPlay) *)

\* the state is the one a frame with the key R left
RegeneratedFrame == call.op = "frame" /\ Pressed(call.input, "r")

\* the state is the one a frame without the key R left
PlainFrame == call.op = "frame" /\ ~Pressed(call.input, "r")

\* grid, room list and the coordinates of both entity maps are those of level
OfGeneration(level) ==
    /\ level.error = "none"
    /\ width = level.width /\ height = level.height
    /\ maze = level.maze
    /\ rooms = level.rooms
    /\ DOMAIN monsters = DOMAIN level.monsters
    /\ DOMAIN treasures = DOMAIN level.treasures

\* C12: what a frame renders belongs to one completed generation: grid, room
\* list, monster map and treasure map are those of one level MazeMap()
\* returned; and the frame in which regenerate_world ran renders the new
\* level as generated, every monster undefeated, every treasure unopened,
\* with the player at the new spawn, a walkable cell, at standing height
C12_AtomicRegeneration ==
    /\ \E level \in PlayLevels : OfGeneration(level)
    /\ RegeneratedFrame =>
          /\ \E level \in PlayLevels :
                 /\ OfGeneration(level)
                 /\ monsters = level.monsters
                 /\ treasures = level.treasures
          /\ \A c \in DOMAIN monsters : ~monsters[c].defeated
          /\ \A c \in DOMAIN treasures : ~treasures[c].opened
          /\ spawn = SpawnSearch(maze, width, height, rooms, 20, 2)
          /\ Walkable(maze[spawn.z][spawn.x])
          /\ player.x = spawn.x * Scale /\ player.z = spawn.z * Scale
          /\ player.y = GroundLevel

\* a regeneration after an entity of the replaced level was defeated or opened
C12_Witness == RegeneratedFrame /\ player.experience > 0

\* C13: a frame in which regenerate_world ran leaves the player's hp, max_hp,
\* level, experience, stats, weapon, speed, yaw and pitch as they were
C13_RegenerationKeepsPlayer ==
    [][RegeneratedFrame' =>
          \A f \in {"hp", "max_hp", "level", "experience", "stats", "weapon", "speed",
                    "rotation_y", "rotation_x"} : player'[f] = player[f]]_vars

\* a regeneration by a player who has turned and gained experience and points
C13_Witness ==
    /\ RegeneratedFrame
    /\ player.rotation_y # 0 /\ player.rotation_x # 0
    /\ player.experience > 0
    /\ player.stats # CreateStats

\* C14: a frame without regeneration leaves every cell tag of the grid as it
\* was, whatever the player did in it; a frame with regeneration shows a
\* grid exactly as generated
C14_GridImmutable ==
    [][/\ PlainFrame' => maze' = maze
       /\ RegeneratedFrame' => \E level \in PlayLevels : maze' = level.maze]_vars

\* third frame of a player who has moved off the spawn and opened a treasure
C14_Witness ==
    /\ PlainFrame
    /\ steps = MaxFrames
    /\ player.x # spawn.x * Scale \/ player.z # spawn.z * Scale
    /\ \E c \in DOMAIN treasures : treasures[c].opened

\* C15: within one level no monster and no treasure is removed or added, and
\* a defeated or opened flag that is true stays true
C15_EntitiesPersist ==
    [][PlainFrame' =>
          /\ DOMAIN monsters' = DOMAIN monsters
          /\ DOMAIN treasures' = DOMAIN treasures
          /\ \A c \in DOMAIN monsters : monsters[c].defeated => monsters'[c].defeated
          /\ \A c \in DOMAIN treasures : treasures[c].opened => treasures'[c].opened]_vars

\* a level with a defeated monster and an opened treasure
C15_Witness ==
    /\ PlainFrame
    /\ \E c \in DOMAIN monsters : monsters[c].defeated
    /\ \E c \in DOMAIN treasures : treasures[c].opened

----------------------------------------------------------------------------
(* Statements about the rooms of add_rooms *)

\* the cell (x, y) lies in the carved interior of the room record r
InInterior(r, x, y) ==
    /\ r.x + 1 <= x /\ x <= r.x + r.width - 2
    /\ r.y + 1 <= y /\ y <= r.y + r.height - 2

\* C16: accepting a room never makes the construction fail, and once the
\* construction has finished every carved room cell belongs to a room of the
\* room list, whose record carries the centre of its footprint
C16_RoomListComplete ==
    /\ error # "AttributeError"
    /\ Constructed =>
          /\ \A y \in 0..(height - 1), x \in 0..(width - 1) :
                 maze[y][x] = 2 => \E i \in DOMAIN rooms : InInterior(rooms[i], x, y)
          /\ \A i \in DOMAIN rooms :
                 /\ rooms[i].center_x = rooms[i].x + rooms[i].width \div 2
                 /\ rooms[i].center_y = rooms[i].y + rooms[i].height \div 2

----------------------------------------------------------------------------
(* Statements about the skeleton loop and the carving passes *)

\* the coarse cells aligned to the start cell at step 12 inside the margin
AlignedCells(w, h) ==
    {c \in (6..(w - 7)) \X (6..(h - 7)) :
        /\ (c[1] - StartCoord(w)) % 12 = 0
        /\ (c[2] - StartCoord(h)) % 12 = 0}

\* C17: no coarse cell is on the stack twice, and when the stack loop has
\* ended with an empty stack every coarse cell aligned to the start cell and
\* inside the margin is non-Wall and joined to the start cell
C17_SkeletonCovers ==
    /\ \A i, j \in DOMAIN stack : stack[i] = stack[j] => i = j
    /\ (pc = "carve" /\ stack = <<>>) =>
          \A c \in AlignedCells(width, height) :
             /\ maze[c[2]][c[1]] # 0
             /\ c \in FloodFill(maze, width, height, StartCell)

\* the cells of the 7x7 block around the start cell that lie in the grid
StartBlock(w, h) ==
    {c \in ((StartCoord(w) - 3)..(StartCoord(w) + 3))
             \X ((StartCoord(h) - 3)..(StartCoord(h) + 3)) : InGrid(w, h, c)}

\* C18: no step of the generation turns a non-Wall cell into a Wall cell, the
\* start block stays open, and the cells joined to the start cell before a
\* step are joined to it after the step
C18_CarvingMonotone ==
    [][/\ \A y \in 0..(height - 1), x \in 0..(width - 1) :
            maze[y][x] # 0 => maze'[y][x] # 0
       /\ \A c \in StartBlock(width, height) : maze'[c[2]][c[1]] # 0
       /\ maze' # maze =>
             FloodFill(maze, width, height, StartCell)
                 \subseteq FloodFill(maze', width, height, StartCell)]_vars

\* a returned grid whose skeleton went beyond the start block
C18_Witness ==
    /\ Constructed
    /\ \E c \in AlignedCells(width, height) : c # StartCell /\ maze[c[2]][c[1]] # 0
    /\ \A c \in StartBlock(width, height) : maze[c[2]][c[1]] # 0

\* the cells of the ring around the footprint of r on the given side
SideCells(r, side) ==
    CASE side = "top" -> {<<x, r.y - 1>> : x \in r.x..(r.x + r.width - 1)}
      [] side = "bottom" -> {<<x, r.y + r.height>> : x \in r.x..(r.x + r.width - 1)}
      [] side = "left" -> {<<r.x - 1, y>> : y \in r.y..(r.y + r.height - 1)}
      [] side = "right" -> {<<r.x + r.width, y>> : y \in r.y..(r.y + r.height - 1)}

Changed == {c \in (0..(width - 1)) \X (0..(height - 1)) : maze'[c[2]][c[1]] # maze[c[2]][c[1]]}

----------------------------------------------------------------------------
(* Statements about the placed monsters *)

\* C21: on a constructed level any two distinct monsters are at Manhattan
\* distance 3 or more, and there are no more monsters than the count drawn
\* for the placement, which is at most 35
C21_MonsterSpacing ==
    Constructed =>
        /\ \A a, b \in DOMAIN monsters :
              a # b => Abs(a[1] - b[1]) + Abs(a[2] - b[2]) >= 3
        /\ \E seed \in Seeds :
              /\ monsters = PlaceMonsters(maze, width, height, seed)
              /\ Cardinality(DOMAIN monsters) <= NumMonsters(seed)
              /\ NumMonsters(seed) <= 35

\* a level with its full count of monsters, two of them exactly 3 apart
C21_Witness ==
    /\ Constructed
    /\ Cardinality(DOMAIN monsters) >= 20
    /\ \E a, b \in DOMAIN monsters : Abs(a[1] - b[1]) + Abs(a[2] - b[2]) = 3

----------------------------------------------------------------------------
(* Statements about single move calls (SpecMove) *)

\* can_move_to(x, z, maze_map) on the current level
CanGo(x, z) == CanMoveTo(x, z, maze, width, height).ok

\* C22: a move operation takes the full target if the player can move to it;
\* else the new x alone if the player can move to (new_x, old z), whether or
\* not (old x, new_z) is free too; else the new z alone if the player can
\* move to (old x, new_z); else nothing.  y, yaw, pitch and vertical
\* velocity are what they were.
C22_SlidingOrder ==
    call.op \in MoveOps =>
        LET b == call.before
            full == CanGo(call.new_x, call.new_z)
            x_only == CanGo(call.new_x, b.z)
            z_only == CanGo(b.x, call.new_z)
        IN  /\ full => player.x = call.new_x /\ player.z = call.new_z
            /\ (~full /\ x_only) => player.x = call.new_x /\ player.z = b.z
            /\ (~full /\ ~x_only /\ z_only) => player.x = b.x /\ player.z = call.new_z
            /\ (~full /\ ~x_only /\ ~z_only) => player.x = b.x /\ player.z = b.z
            /\ \A f \in {"y", "rotation_y", "rotation_x", "velocity_y"} : player[f] = b[f]

\* a strafe in the air towards the corner of a wall, with both slides free
C22_Witness ==
    /\ call.op = "strafe_right"
    /\ call.before.velocity_y # 0
    /\ ~CanGo(call.new_x, call.new_z)
    /\ CanGo(call.new_x, call.before.z)
    /\ CanGo(call.before.x, call.new_z)
    /\ player.x = call.new_x /\ player.x # call.before.x

----------------------------------------------------------------------------
(* Statements about the vertical motion (SpecJump, SpecJumpFair) *)

\* standing: at ground level, without vertical velocity, not jumping
OnGround(p) == p.y = GroundLevel /\ p.velocity_y = 0 /\ ~p.is_jumping

\* C23: after every apply_physics call, whatever dt and the state before,
\* the player's y is at least ground level, and a player at ground level has
\* vertical velocity 0 and is not jumping
C23_FloorClamp ==
    call.op = "apply_physics" =>
        /\ player.y >= GroundLevel
        /\ player.y = GroundLevel => OnGround(player)

\* the tick after regenerate_world has put the player at floor + 1.0
C23_Witness ==
    /\ call.op = "apply_physics"
    /\ call.before.y = FloorHeight + 1000
    /\ call.before.y < GroundLevel
    /\ OnGround(player)

\* C24: a jump call by a player who is not jumping and has |velocity_y| < 0.1
\* sets velocity_y to the jump strength and is_jumping, and nothing else; any
\* other jump call changes nothing; and with physics ticks of positive dt
\* never ceasing, a jumping player is eventually standing on the ground
C24_JumpAndLand ==
    /\ [][call'.op = "jump" =>
             IF ~player.is_jumping /\ Abs(player.velocity_y) < 100
             THEN player' = [player EXCEPT !.velocity_y = JumpStrength,
                                           !.is_jumping = TRUE]
             ELSE player' = player]_vars
    /\ player.is_jumping ~> OnGround(player)

\* the tick in which a falling player lands
C24_Witness ==
    /\ call.op = "apply_physics"
    /\ call.before.is_jumping
    /\ call.before.velocity_y < 0
    /\ call.before.y > GroundLevel
    /\ OnGround(player)

----------------------------------------------------------------------------
(* Statements about the geometry passes (SpecRender) *)

\* the passes that list quads
QuadPasses == {"render_ground_plane", "render_maze_walls"}

\* C25: a floor quad or wall quad is on the draw list only if all 4 of its
\* corners projected (non-None, depth > 0.001); no quad is listed with fewer
\* vertices; and the depth a listed quad is sorted by is the average depth of
\* its 4 projected corners
C25_FailedVertexDrops ==
    call.op \in QuadPasses =>
        \A q \in call.quads :
           q.listed =>
              /\ \A i \in 1..4 : q.corners[i].kind = "tuple" /\ q.corners[i].final_z > 1
              /\ Len(q.screen_vertices) = 4
              /\ q.avg_distance = (q.corners[1].final_z + q.corners[2].final_z
                                   + q.corners[3].final_z + q.corners[4].final_z) \div 4

\* the cell of the player
PlayerCell == <<Trunc(player.x), Trunc(player.z)>>

\* the passes of a frame
GeometryPasses == {"render_ground_plane", "render_maze_walls", "render_terrain_surfaces"}

\* C26: every cell a geometry pass visits lies in the window of the largest
\* radius of the passes (render_distance, 35) around the player's cell
C26_VisibleWindow ==
    call.op \in GeometryPasses =>
        /\ Abs(call.x - PlayerCell[1]) <= RenderDistance
        /\ Abs(call.z - PlayerCell[2]) <= RenderDistance

----------------------------------------------------------------------------
(* Statements about the frames of a running game (SpecPlay), continued *)

\* C27: in every state of a running game, after any frames of moves, jumps,
\* physics ticks, interactions and regenerations, the cell (floor(x),
\* floor(z)) under the player is inside the current grid and is corridor,
\* room or door
C27_StandsOnFloor ==
    /\ 0 <= PlayerCell[1] /\ PlayerCell[1] < width
    /\ 0 <= PlayerCell[2] /\ PlayerCell[2] < height
    /\ player.x >= 0 /\ player.z >= 0
    /\ Walkable(CellUnder(player.x, player.z))

\* after a frame with W and shift held the player stands off the spawn cell's
\* corner, short of a wall cell: a further run forward would end inside it
C27_Witness ==
    /\ call.op = "frame"
    /\ "w" \in call.input.keys
    /\ <<player.x, player.z>> # <<spawn.x * Scale, spawn.z * Scale>>
    /\ LET t == MoveTarget(player, "move_forward", MoveSpeed(TRUE)) IN
       /\ InGrid(width, height, <<Trunc(t[1]), Trunc(t[2])>>)
       /\ CellUnder(t[1], t[2]) = 0

\* cell c is within reach of interact: at most 2 away along x and along z and
\* at most 2.5 away, from the player's rounded cell
WithinReach(c) ==
    LET dx == c[1] - Round(player.x)
        dz == c[2] - Round(player.z)
    IN  /\ Abs(dx) <= 2 /\ Abs(dz) <= 2
        /\ 4 * (dx * dx + dz * dz) <= 25

\* the cells whose monster, or whose treasure, the step changes
TouchedMonsters == {c \in DOMAIN monsters : monsters'[c] # monsters[c]}
TouchedTreasures == {c \in DOMAIN treasures : treasures'[c] # treasures[c]}

\* the step is a frame whose only input is the key event E: one interact()
InteractFrame == call'.op = "frame" /\ call'.input = [NoInput EXCEPT !.events = <<"e">>]

\* q is p but for the height, the vertical velocity and the jump flag
SameButVertical(p, q) ==
    [q EXCEPT !.y = p.y, !.velocity_y = p.velocity_y, !.is_jumping = p.is_jumping] = p

\* C28: one interact() changes at most one monster or treasure; what it
\* changes was an undefeated monster or an unopened treasure within reach; and
\* when no such monster or treasure is within reach (all of them defeated or
\* opened, or none there), no monster, no treasure and no attribute of the
\* player changes, and the game keeps running
C28_InteractTouchesOne ==
    [][InteractFrame =>
         /\ Cardinality(TouchedMonsters) + Cardinality(TouchedTreasures) <= 1
         /\ \A c \in TouchedMonsters :
               ~monsters[c].defeated /\ monsters'[c].defeated /\ WithinReach(c)
         /\ \A c \in TouchedTreasures :
               ~treasures[c].opened /\ treasures'[c].opened /\ WithinReach(c)
         /\ (~\E c \in DOMAIN monsters \cup DOMAIN treasures :
                  WithinReach(c) /\ ActiveAt(Game, c))
               => /\ monsters' = monsters
                  /\ treasures' = treasures
                  /\ SameButVertical(player, player')
                  /\ running' = running]_vars

\* an interact() with a defeated monster and an opened treasure within reach
C28_Witness ==
    /\ call.op = "frame"
    /\ call.input = [NoInput EXCEPT !.events = <<"e">>]
    /\ \E c \in DOMAIN monsters : WithinReach(c) /\ monsters[c].defeated
    /\ \E c \in DOMAIN treasures : WithinReach(c) /\ treasures[c].opened

----------------------------------------------------------------------------
(* Statements about battles, treasures and experience (SpecQuest) *)

\* C29: hp never exceeds max_hp; a running game has hp >= 1, so a battle that
\* brings hp to 0 or less has set running to false; running never turns true
\* again; and a lost battle (the only thing that lowers hp, by 2) leaves
\* every monster as it was, the one fought undefeated
C29_HpAndDeath ==
    /\ [](/\ player.hp <= player.max_hp
          /\ running => player.hp >= 1
          /\ player.hp <= 0 => ~running)
    /\ [][/\ ~running => ~running'
          /\ player'.hp < player.hp =>
                /\ player'.hp = player.hp - 2
                /\ monsters' = monsters
                /\ \E c \in DOMAIN monsters : WithinReach(c) /\ ~monsters'[c].defeated]_vars

\* the lost battle that ended the game
C29_Witness ==
    /\ call.op = "frame"
    /\ Pressed(call.input, "e")
    /\ ~running
    /\ player.hp <= 0
    /\ \E c \in DOMAIN monsters : WithinReach(c) /\ ~monsters[c].defeated

\* C30: level is experience // 100 + 1 and max_hp is 4 + level after every
\* battle and treasure; experience never decreases; no frame's interaction
\* raises level by more than 1; a level-up raises max_hp by exactly 1 and
\* leaves hp at max_hp
C30_LevelFromExperience ==
    /\ [](/\ player.level = player.experience \div 100 + 1
          /\ player.max_hp = 4 + player.level)
    /\ [][/\ player'.experience >= player.experience
          /\ player'.level \in {player.level, player.level + 1}
          /\ player'.level > player.level =>
                /\ player'.max_hp = player.max_hp + 1
                /\ player'.hp = player'.max_hp
          /\ player'.level = player.level => player'.max_hp = player.max_hp]_vars

\* the interaction that brought the second level
C30_Witness ==
    /\ call.op = "frame"
    /\ Pressed(call.input, "e")
    /\ player.experience >= 100
    /\ player.level = 2
    /\ player.max_hp = 6

====
